---- MODULE Spec2Model ----
(***************************************************************************)
(* Model of the duplicate finder's core: the thread-safe group counter     *)
(* (utils/safe_counter.py), the similarity relation (utils/images.py),     *)
(* the grouping pass (utils/video_compare.py, utils/image_compare.py) and  *)
(* the filter / sort / bucket tail of the batch entry points               *)
(* (find-dup.py, find-dup-img.py).                                         *)
(***************************************************************************)
EXTENDS Integers, Sequences, FiniteSets, TLC

VARIABLES
    value,      \* SafeCounter._value
    lock,       \* SafeCounter._lock: the thread holding it, or NoThread
    tpc,        \* per thread: where it is inside get_int
    tmp,        \* per thread: the value loaded by `self._value += 1`
    ret,        \* per thread: the value get_int returned (0: not yet)
    order,      \* history: threads in the order they acquired the lock
    kind,       \* which mark_groups runs: "image" or "video" (or "none")
    a,          \* the list handed to mark_groups; its items are mutated in place
    idx,        \* mark_groups: index of the outer loop (0-based, as in the code)
    idx2,       \* mark_groups: index of the inner loop into the slice a[idx+1:]
    pc,         \* position of the batch run
    start,      \* history: the arguments mark_groups was called with
    compared,   \* history: the comparisons evaluated, with the group numbers then
    reached,    \* history: for each item the outer loop reached, the items grouped then
    calls,      \* history: the number of calls of mark_groups on the list
    grouped,    \* the batch entry point's mapping group_number -> paths
    fa,         \* similarity check: first fingerprint
    fb,         \* similarity check: second fingerprint
    verdict,    \* similarity check: results of is_similar_img / is_identical_img
    path_list,  \* sort_path_naturally: the list it is called with
    sorted_list,\* sort_path_naturally: the list it returns
    spc,        \* sort_path_naturally: "call", "returned" or "TypeError"
    path_exists,\* batch run: whether the target path exists at start
    video_files,\* batch run: the files scan() found, in iteration order
    vidx,       \* batch run: number of files the extraction loop is done with
    duration,   \* batch run: int(duration) of the current file
    tsidx,      \* batch run: index into timestamps of the screenshot loop
    screenshots,\* batch run: video_obj.screenshots, each the second it shows
    hidx,       \* batch run: index of the hashing loop into screenshots
    hashed_imgs,\* batch run: the fingerprints of the current file so far
    bpc,        \* batch run: position of main before mark_groups
    failures,   \* history: the files whose probing, screenshot, hashing failed
    mode_name,  \* HashComputer.__init__: the argument mode
    self_mode,  \* HashComputer.mode: the hash function selected
    hpc,        \* HashComputer.__init__: "call" or "constructed"
    tree,       \* file system: the paths that exist
    dmode,      \* file system: the permissions of every directory
    trash,      \* file system: the paths send2trash moved to the trash
    TRASH_SUPPORTED, \* files.py: whether send2trash could be imported
    ncalls,     \* number of calls of silent_remove / safe_remove so far
    removal,    \* history: the last call, its argument and the tree before
    scan_args,  \* scan: folder_path and the three flags
    scanned,    \* scan: the set video_files it returns
    scpc,       \* scan: "call" or "returned"
    scan_tree,  \* history: the tree when scan was called
    scan_btn,   \* tkinter GUI: state of the Scan button
    folder_path,\* tkinter GUI: the folder chosen, "" when none
    video_items,\* tkinter GUI: the items of the result list
    main,       \* tkinter GUI: the update() calls the main thread is inside
    after_queue,\* tkinter GUI: callbacks scheduled with after, not yet run
    scheduled,  \* history: every callback scheduled with after, in order
    nscans,     \* tkinter GUI: number of scans begun
    wpc,        \* tkinter GUI: position of every worker thread
    wresult,    \* tkinter GUI: how the worker's call of scan ended
    wfiles,     \* tkinter GUI: the worker's set video_files
    wseen,      \* tkinter GUI: the files the worker's loop has been through
    wtemp,      \* tkinter GUI: the worker's list _temp
    fast_mode,  \* group window: --fast-mode
    video_paths,\* group window: the paths of the group
    total_videos, \* group window: len(video_paths)
    panels,     \* group window: the paths that got a display panel
    enabled,    \* group window: the panels whose Delete button is enabled
    deleted_count, \* group window: delete events handled
    posted,     \* group window: delete events posted, not yet handled
    gwpc,       \* group window: "none", "open" or "closed"
    gone,       \* group window: the paths safe_remove has removed
    closed_by   \* history: what closed the window

counterVars == <<value, lock, tpc, tmp, ret, order>>
threadVars == <<lock, tpc, tmp, ret, order>>
markVars == <<kind, a, idx, idx2, pc, start, compared, reached, calls,
              grouped>>
simVars == <<fa, fb, verdict>>
sortVars == <<path_list, sorted_list, spc>>
\* The state of the helpers of utils/ that the grouping core does not touch.
batchVars == <<path_exists, video_files, vidx, duration, tsidx, screenshots,
               hidx, hashed_imgs, bpc, failures>>
hashVars == <<mode_name, self_mode, hpc>>
fsVars == <<tree, dmode, trash, TRASH_SUPPORTED, ncalls, removal>>
scanVars == <<scan_args, scanned, scpc, scan_tree>>
guiVars == <<scan_btn, folder_path, video_items, main, after_queue, scheduled,
            nscans, wpc, wresult, wfiles, wseen, wtemp>>
gwVars == <<fast_mode, video_paths, total_videos, panels, enabled,
           deleted_count, posted, gwpc, gone, closed_by>>
uiVars == <<guiVars, gwVars>>
utilVars == <<sortVars, batchVars, hashVars, fsVars, scanVars, uiVars>>
\* What the actions of one helper leave alone among the other helpers.
sortRest == <<batchVars, hashVars, fsVars, scanVars, uiVars>>
batchRest == <<sortVars, hashVars, fsVars, scanVars, uiVars>>
hashRest == <<sortVars, batchVars, fsVars, scanVars, uiVars>>
fsRest == <<sortVars, batchVars, hashVars, scanVars, uiVars>>
scanRest == <<sortVars, batchVars, hashVars, uiVars>>
guiRest == <<sortVars, batchVars, hashVars, fsVars, scanVars, gwVars>>
gwRest == <<sortVars, batchVars, hashVars, fsVars, scanVars, guiVars>>
coreVars == <<counterVars, markVars, simVars>>

vars == <<value, lock, tpc, tmp, ret, order, kind, a, idx, idx2, pc, start,
          compared, reached, calls, grouped, fa, fb, verdict, path_list, sorted_list,
          spc, path_exists, video_files, vidx, duration, tsidx, screenshots,
          hidx, hashed_imgs, bpc, failures, mode_name, self_mode, hpc, tree,
          dmode, trash, TRASH_SUPPORTED, ncalls, removal, scan_args, scanned,
          scpc, scan_tree, scan_btn, folder_path, video_items, main,
          after_queue, scheduled, nscans, wpc, wresult, wfiles, wseen,
          wtemp,
          fast_mode, video_paths, total_videos, panels, enabled,
          deleted_count, posted, gwpc, gone, closed_by>>

(***************************************************************************)
(* Bounds of the model.                                                    *)
(***************************************************************************)
NThreads == 3
\* Fingerprints of the grouping runs have HashBits bits (the code's have
\* HASH_SIZE * HASH_SIZE), those of the similarity check CmpBits bits.
HashBits == 2
CmpBits == 4
MaxImages == 4
MaxVideos == 3
MaxFrames == 2
MaxStartValue == 1
MaxPaths == 3
MaxBatchFiles == 3
MaxBatchPool == 3
MaxCalls == 2
MaxPasses == 2
MaxScans == 2
MaxGuiFiles == 2
MaxGroup == 3

Threads == 1..NThreads
NoThread == 0

(***************************************************************************)
(* SafeCounter (utils/safe_counter.py).                                    *)
(***************************************************************************)
\* A counter that steps by two (a bug).
IncrementsByTwo(v) == v + 2

\* The sum computed by `self._value += 1`.
Incremented(v) == v + 1

\* peek_int: `return self._value`, read without the lock.
peek_int(v) == v

SafeCounterInit ==
    /\ value = 0
    /\ lock = NoThread

ThreadsInit ==
    /\ tpc = [t \in Threads |-> "idle"]
    /\ tmp = [t \in Threads |-> 0]
    /\ ret = [t \in Threads |-> 0]
    /\ order = <<>>

\* A thread calls get_int(): it reaches the `with self._lock:` statement.
Call(t) ==
    /\ tpc[t] = "idle"
    /\ tpc' = [tpc EXCEPT ![t] = "acquire"]
    /\ UNCHANGED <<value, lock, tmp, ret, order, markVars, simVars, utilVars>>

\* Acquire as it would be without mutual exclusion (a bug: no lock check).
AcquireNoExclusion(t) ==
    /\ tpc[t] = "acquire"
    /\ lock' = t
    /\ order' = Append(order, t)
    /\ tpc' = [tpc EXCEPT ![t] = "load"]
    /\ UNCHANGED <<value, tmp, ret, markVars, simVars, utilVars>>

\* `with self._lock:` entered: blocks while another thread holds the lock.
Acquire(t) ==
    /\ tpc[t] = "acquire"
    /\ lock = NoThread
    /\ lock' = t
    /\ order' = Append(order, t)
    /\ tpc' = [tpc EXCEPT ![t] = "load"]
    /\ UNCHANGED <<value, tmp, ret, markVars, simVars, utilVars>>

\* `self._value += 1`, first half: read self._value.
Load(t) ==
    /\ tpc[t] = "load"
    /\ tmp' = [tmp EXCEPT ![t] = value]
    /\ tpc' = [tpc EXCEPT ![t] = "store"]
    /\ UNCHANGED <<value, lock, ret, order, markVars, simVars, utilVars>>

\* `self._value += 1`, second half: write the sum back.
Store(t) ==
    /\ tpc[t] = "store"
    /\ value' = Incremented(tmp[t])
    /\ tpc' = [tpc EXCEPT ![t] = "return"]
    /\ UNCHANGED <<lock, tmp, ret, order, markVars, simVars, utilVars>>

\* `return self._value`: the result is read while the lock is still held.
Return(t) ==
    /\ tpc[t] = "return"
    /\ ret' = [ret EXCEPT ![t] = value]
    /\ tpc' = [tpc EXCEPT ![t] = "release"]
    /\ UNCHANGED <<value, lock, tmp, order, markVars, simVars, utilVars>>

\* Leaving the `with` block releases the lock; the caller has its value.
Release(t) ==
    /\ tpc[t] = "release"
    /\ lock' = NoThread
    /\ tpc' = [tpc EXCEPT ![t] = "done"]
    /\ UNCHANGED <<value, tmp, ret, order, markVars, simVars, utilVars>>

(***************************************************************************)
(* Fingerprints and the similarity relation (utils/images.py).             *)
(* A fingerprint is the bit vector of an imagehash.ImageHash.              *)
(***************************************************************************)
IDENTICAL_THRESHOLD == 1
SIMILAR_THRESHOLD == 2

FingerprintsOf(bits) == [1..bits -> {0, 1}]

\* ImageHash.__sub__: the number of bit positions in which two hashes differ.
HashDiff(x, y) == Cardinality({i \in DOMAIN x : x[i] # y[i]})

Abs(n) == IF n < 0 THEN -n ELSE n

\* A similarity test that lets the threshold itself through (a bug).
is_similar_img_inclusive(x, y) == Abs(HashDiff(x, y)) <= SIMILAR_THRESHOLD

is_similar_img(x, y) == Abs(HashDiff(x, y)) < SIMILAR_THRESHOLD

is_identical_img(x, y) == Abs(HashDiff(x, y)) < IDENTICAL_THRESHOLD

(***************************************************************************)
(* Comparison objects (utils/image_compare.py, utils/video_compare.py).    *)
(* An image item holds hashed_img (a fingerprint or None), a video item    *)
(* holds hashed_imgs (a list of fingerprints); both start with             *)
(* group_number 0.                                                         *)
(***************************************************************************)
None == <<>>

Min(m, n) == IF m < n THEN m ELSE n

visual_compare_image(x, y) ==
    IF x.hashed_img = None \/ y.hashed_img = None
    THEN FALSE
    ELSE is_similar_img(x.hashed_img, y.hashed_img)

\* A comparison without the test for empty lists (a bug: all([]) is True).
visual_compare_video_all_of_nothing(x, y) ==
    \A p \in 1..Min(Len(x.hashed_imgs), Len(y.hashed_imgs)) :
        is_similar_img(x.hashed_imgs[p], y.hashed_imgs[p])

visual_compare_video(x, y) ==
    IF Len(x.hashed_imgs) = 0 \/ Len(y.hashed_imgs) = 0
    THEN FALSE
    ELSE \A p \in 1..Min(Len(x.hashed_imgs), Len(y.hashed_imgs)) :
             is_similar_img(x.hashed_imgs[p], y.hashed_imgs[p])

\* The comparison the mark_groups of module k ("image" or "video") calls.
visual_compare(k, x, y) ==
    IF k = "image" THEN visual_compare_image(x, y) ELSE visual_compare_video(x, y)

(***************************************************************************)
(* mark_groups (utils/video_compare.py and utils/image_compare.py: the two *)
(* functions differ only in the comparison they call).  Indices i, j below *)
(* are positions in the list, counted from 1; the code's idx is i - 1 and  *)
(* its idx2 is j - i - 1, the offset into the slice a[idx+1:].  The slice  *)
(* copies the list, not the items, so item2 is the very item a[j].         *)
(***************************************************************************)
\* A check that never finds an item grouped (a bug: no skip).
GroupedNever(x) == FALSE

\* `x.group_number > 0`: the item is already in a group.
Grouped(x) == x.group_number > 0

\* A fresh id that only item2 gets (a bug: the anchor stays ungrouped).
NewGroupForgetsAnchor(l, v, i, j) ==
    [a |-> [l EXCEPT ![j].group_number = Incremented(v)],
     value |-> Incremented(v)]

\* `group_number = counter.get_int()`, then both items get it.  get_int is
\* SafeCounter.get_int, called by the one thread of the pass.
NewGroup(l, v, i, j) ==
    [a |-> [l EXCEPT ![i].group_number = Incremented(v),
                     ![j].group_number = Incremented(v)],
     value |-> Incremented(v)]

\* An else branch that leaves item2 as it is (a bug).
JoinedNot(l, v, i, j) == [a |-> l, value |-> v]

\* `item2.group_number = item.group_number`.
Joined(l, v, i, j) ==
    [a |-> [l EXCEPT ![j].group_number = l[i].group_number], value |-> v]

\* The body of the inner loop for item = l[i], item2 = l[j]: the list and the
\* counter value it leaves.
inner_body(k, l, v, i, j) ==
    IF Grouped(l[j])
    THEN [a |-> l, value |-> v]
    ELSE IF visual_compare(k, l[i], l[j])
         THEN IF l[i].group_number = 0
              THEN NewGroup(l, v, i, j)
              ELSE Joined(l, v, i, j)
         ELSE [a |-> l, value |-> v]

RECURSIVE inner_loop(_, _, _, _, _)
\* `for idx2, item2 in enumerate(a[idx+1:])`, from position j on.
inner_loop(k, l, v, i, j) ==
    IF j > Len(l)
    THEN [a |-> l, value |-> v]
    ELSE LET r == inner_body(k, l, v, i, j)
         IN  inner_loop(k, r.a, r.value, i, j + 1)

RECURSIVE outer_loop(_, _, _, _)
\* `for idx, item in enumerate(a)`, from position i on.
outer_loop(k, l, v, i) ==
    IF i > Len(l) THEN [a |-> l, value |-> v]
    ELSE IF i = Len(l) THEN [a |-> l, value |-> v]
    ELSE IF Grouped(l[i]) THEN outer_loop(k, l, v, i + 1)
    ELSE LET r == inner_loop(k, l, v, i, i + 1)
         IN  outer_loop(k, r.a, r.value, i + 1)

\* mark_groups(a, counter) as a function of the list and the counter's value.
mark_groups(k, l, v) == outer_loop(k, l, v, 1)

(***************************************************************************)
(* The same pass, one loop step at a time.                                 *)
(***************************************************************************)
Item == a[idx + 1]
Item2 == a[idx + idx2 + 2]
SliceLen == Len(a) - (idx + 1)

\* The comparison of item and item2 being evaluated, added to the history.
Logged ==
    compared \cup {[i |-> idx + 1, j |-> idx + idx2 + 2,
                    gi |-> Item.group_number, gj |-> Item2.group_number]}

\* The outer loop reaches item: the positions of the items grouped by then
\* are added to the history.
Reached == Append(reached, {p \in 1..Len(a) : a[p].group_number > 0})

\* `for idx, item in enumerate(a)` finds the list exhausted: return a.
OuterExhausted ==
    /\ pc = "outer"
    /\ idx >= Len(a)
    /\ pc' = "done"
    /\ UNCHANGED <<value, threadVars, kind, a, idx, idx2, start, compared, reached, calls,
                   grouped, simVars, utilVars>>

\* A break one item early (a bug).
OuterBreakEarly ==
    /\ pc = "outer"
    /\ idx < Len(a)
    /\ idx >= Len(a) - 2
    /\ pc' = "done"
    /\ reached' = Reached
    /\ UNCHANGED <<value, threadVars, kind, a, idx, idx2, start, compared, calls,
                   grouped, simVars, utilVars>>

\* `if idx == len(a) - 1: break`, then return a.
OuterBreak ==
    /\ pc = "outer"
    /\ idx < Len(a)
    /\ idx = Len(a) - 1
    /\ pc' = "done"
    /\ reached' = Reached
    /\ UNCHANGED <<value, threadVars, kind, a, idx, idx2, start, compared, calls,
                   grouped, simVars, utilVars>>

\* A grouped item that is scanned all the same (a bug: no `continue`).
OuterSkipScans ==
    /\ pc = "outer"
    /\ idx < Len(a) - 1
    /\ Grouped(Item)
    /\ idx2' = 0
    /\ pc' = "inner"
    /\ reached' = Reached
    /\ UNCHANGED <<value, threadVars, kind, a, idx, start, compared, calls, grouped,
                   simVars, utilVars>>

\* `if item.group_number > 0: continue`.
OuterSkip ==
    /\ pc = "outer"
    /\ idx < Len(a) - 1
    /\ Grouped(Item)
    /\ idx' = idx + 1
    /\ reached' = Reached
    /\ UNCHANGED <<value, threadVars, kind, a, idx2, pc, start, compared, calls,
                   grouped, simVars, utilVars>>

\* An inner loop that starts whether item is grouped or not (a bug).
OuterEnterAlways ==
    /\ pc = "outer"
    /\ idx < Len(a) - 1
    /\ idx2' = 0
    /\ pc' = "inner"
    /\ reached' = Reached
    /\ UNCHANGED <<value, threadVars, kind, a, idx, start, compared, calls, grouped,
                   simVars, utilVars>>

\* item is not grouped: the inner loop starts on the slice a[idx+1:].
OuterEnter ==
    /\ pc = "outer"
    /\ idx < Len(a) - 1
    /\ ~Grouped(Item)
    /\ idx2' = 0
    /\ pc' = "inner"
    /\ reached' = Reached
    /\ UNCHANGED <<value, threadVars, kind, a, idx, start, compared, calls, grouped,
                   simVars, utilVars>>

\* The inner loop finds the slice exhausted: next outer iteration.
InnerExhausted ==
    /\ pc = "inner"
    /\ idx2 >= SliceLen
    /\ idx' = idx + 1
    /\ pc' = "outer"
    /\ UNCHANGED <<value, threadVars, kind, a, idx2, start, compared, reached, calls, grouped,
                   simVars, utilVars>>

\* `if item2.group_number > 0: continue`.
InnerSkip ==
    /\ pc = "inner"
    /\ idx2 < SliceLen
    /\ Grouped(Item2)
    /\ idx2' = idx2 + 1
    /\ UNCHANGED <<value, threadVars, kind, a, idx, pc, start, compared, reached, calls,
                   grouped, simVars, utilVars>>

\* The comparison is evaluated and is false.
InnerMiss ==
    /\ pc = "inner"
    /\ idx2 < SliceLen
    /\ ~Grouped(Item2)
    /\ ~visual_compare(kind, Item, Item2)
    /\ compared' = Logged
    /\ idx2' = idx2 + 1
    /\ UNCHANGED <<value, threadVars, kind, a, idx, pc, start, reached, calls, grouped,
                   simVars, utilVars>>

\* The comparison is true and item has no group: a fresh id for both.
InnerNewGroup ==
    /\ pc = "inner"
    /\ idx2 < SliceLen
    /\ ~Grouped(Item2)
    /\ visual_compare(kind, Item, Item2)
    /\ Item.group_number = 0
    /\ LET r == NewGroup(a, value, idx + 1, idx + idx2 + 2)
       IN  a' = r.a /\ value' = r.value
    /\ compared' = Logged
    /\ idx2' = idx2 + 1
    /\ UNCHANGED <<threadVars, kind, idx, pc, start, reached, calls, grouped, simVars, utilVars>>

\* The comparison is true and item has a group: item2 joins it.
InnerJoin ==
    /\ pc = "inner"
    /\ idx2 < SliceLen
    /\ ~Grouped(Item2)
    /\ visual_compare(kind, Item, Item2)
    /\ Item.group_number # 0
    /\ LET r == Joined(a, value, idx + 1, idx + idx2 + 2)
       IN  a' = r.a /\ value' = r.value
    /\ compared' = Logged
    /\ idx2' = idx2 + 1
    /\ UNCHANGED <<threadVars, kind, idx, pc, start, reached, calls, grouped, simVars, utilVars>>

\* mark_groups is called once more, with the list it returned and the same
\* counter.
MarkAgain ==
    /\ pc = "done"
    /\ calls < MaxPasses
    /\ idx' = 0
    /\ idx2' = 0
    /\ pc' = "outer"
    /\ start' = [a |-> a, value |-> value]
    /\ compared' = {}
    /\ reached' = <<>>
    /\ calls' = calls + 1
    /\ UNCHANGED <<value, threadVars, kind, a, grouped, simVars, utilVars>>

(***************************************************************************)
(* Natural path ordering (utils/files.py).  A path is the tuple of its     *)
(* parts (pathlib's Path.parts), a part is a tuple of characters.          *)
(***************************************************************************)
Digits == {"0", "1", "2", "3", "4", "5", "6", "7", "8", "9"}

DigitVal(c) ==
    CASE c = "0" -> 0 [] c = "1" -> 1 [] c = "2" -> 2 [] c = "3" -> 3
      [] c = "4" -> 4 [] c = "5" -> 5 [] c = "6" -> 6 [] c = "7" -> 7
      [] c = "8" -> 8 [] c = "9" -> 9

\* The code point of a character, which orders Python's strings.
Ord(c) ==
    CASE c \in Digits -> 48 + DigitVal(c)
      [] c = "." -> 46
      [] c = "/" -> 47
      [] c = "a" -> 97
      [] c = "b" -> 98
      [] c = "d" -> 100
      [] c = "i" -> 105
      [] c = "m" -> 109
      [] c = "p" -> 112
      [] c = "r" -> 114
      [] c = "v" -> 118
      [] c = "x" -> 120

RECURSIVE IntOf(_)
\* int(text) of a run of digits.
IntOf(t) ==
    IF t = <<>> THEN 0
    ELSE 10 * IntOf(SubSeq(t, 1, Len(t) - 1)) + DigitVal(t[Len(t)])

RECURSIVE DigitRun(_)
\* Length of the run of digits a text starts with.
DigitRun(t) ==
    IF t # <<>> /\ t[1] \in Digits THEN 1 + DigitRun(Tail(t)) ELSE 0

RECURSIVE TextRun(_)
\* Length of the run of non-digits a text starts with.
TextRun(t) ==
    IF t # <<>> /\ t[1] \notin Digits THEN 1 + TextRun(Tail(t)) ELSE 0

StrTok(text) == [ty |-> "str", v |-> text]
IntTok(n) == [ty |-> "int", v |-> n]

\* A split that leaves the digits as text (a bug: no atoi).
natural_keys_as_text(text) == <<StrTok(text)>>

RECURSIVE natural_keys(_)
\* [atoi(c) for c in re.split(r'(\d+)', text)]: text, number, text, ...
natural_keys(text) ==
    LET n == TextRun(text)
        rest == SubSeq(text, n + 1, Len(text))
        d == DigitRun(rest)
    IN  IF rest = <<>>
        THEN <<StrTok(SubSeq(text, 1, n))>>
        ELSE <<StrTok(SubSeq(text, 1, n)), IntTok(IntOf(SubSeq(rest, 1, d)))>>
             \o natural_keys(SubSeq(rest, d + 1, Len(rest)))

\* Position of the last "." of a name, 0 when there is none.
LastDot(name) ==
    LET dots == {p \in 1..Len(name) : name[p] = "."}
    IN  IF dots = {} THEN 0 ELSE CHOOSE p \in dots : \A q \in dots : q <= p

\* pathlib's stem: the name without its last suffix.
Stem(name) ==
    LET p == LastDot(name)
    IN  IF 1 < p /\ p < Len(name) THEN SubSeq(name, 1, p - 1) ELSE name

RECURSIVE SectionKeys(_)
SectionKeys(sections) ==
    IF sections = <<>> THEN <<>>
    ELSE natural_keys(Head(sections)) \o SectionKeys(Tail(sections))

\* The list `keys` sort_path_naturally builds for one path.
PathKeys(path) ==
    IF path = <<>> THEN <<>>
    ELSE SectionKeys([path EXCEPT ![Len(path)] = Stem(path[Len(path)])])

TokEq(x, y) == x.ty = y.ty /\ x.v = y.v

RECURSIVE StrLess(_, _)
\* Python's str <: by code point, a proper prefix first.
StrLess(x, y) ==
    IF y = <<>> THEN FALSE
    ELSE IF x = <<>> THEN TRUE
    ELSE IF Ord(x[1]) # Ord(y[1]) THEN Ord(x[1]) < Ord(y[1])
    ELSE StrLess(Tail(x), Tail(y))

\* First position at which two key lists differ, 0 when one is a prefix.
FirstDiff(x, y) ==
    LET ds == {p \in 1..Min(Len(x), Len(y)) : ~TokEq(x[p], y[p])}
    IN  IF ds = {} THEN 0 ELSE CHOOSE p \in ds : \A q \in ds : p <= q

\* Python's list <: "lt", "ge", or "TypeError" when the first differing
\* elements are a str and an int.
KeyLess(x, y) ==
    LET p == FirstDiff(x, y)
    IN  IF p = 0 THEN (IF Len(x) < Len(y) THEN "lt" ELSE "ge")
        ELSE IF x[p].ty # y[p].ty THEN "TypeError"
        ELSE IF x[p].ty = "int" THEN (IF x[p].v < y[p].v THEN "lt" ELSE "ge")
        ELSE IF StrLess(x[p].v, y[p].v) THEN "lt" ELSE "ge"

RECURSIVE InsertByKey(_, _)
\* x put behind every element of the sorted list that is not greater.
InsertByKey(sorted, x) ==
    IF sorted = <<>> THEN <<x>>
    ELSE IF KeyLess(PathKeys(x), PathKeys(Head(sorted))) = "lt"
         THEN <<x>> \o sorted
         ELSE <<Head(sorted)>> \o InsertByKey(Tail(sorted), x)

RECURSIVE SortedByKey(_)
SortedByKey(paths) ==
    IF paths = <<>> THEN <<>>
    ELSE InsertByKey(SortedByKey(SubSeq(paths, 1, Len(paths) - 1)),
                     paths[Len(paths)])

\* sorted() compares with < only and raises TypeError when it meets a pair
\* that < cannot order; a comparison sort has to order every pair.
SortRaises(paths) ==
    \E p, q \in 1..Len(paths) :
        p # q /\ KeyLess(PathKeys(paths[p]), PathKeys(paths[q])) = "TypeError"

\* sort_path_naturally, when sorted() does not raise: a stable sort by key.
sort_path_naturally(paths) == SortedByKey(paths)

(***************************************************************************)
(* sort_videos / sort_images: sorted(a, key=group_number), a stable sort.  *)
(***************************************************************************)
RECURSIVE InsertByGroupBeforeEqual(_, _)
\* An insertion that puts x before the items of its own group (a bug: the
\* sort is not stable).
InsertByGroupBeforeEqual(sorted, x) ==
    IF sorted = <<>> THEN <<x>>
    ELSE IF x.group_number <= Head(sorted).group_number
         THEN <<x>> \o sorted
         ELSE <<Head(sorted)>> \o InsertByGroupBeforeEqual(Tail(sorted), x)

RECURSIVE InsertByGroup(_, _)
\* x put behind every item of the sorted list whose group_number is not
\* greater: sorted() is stable.
InsertByGroup(sorted, x) ==
    IF sorted = <<>> THEN <<x>>
    ELSE IF x.group_number < Head(sorted).group_number
         THEN <<x>> \o sorted
         ELSE <<Head(sorted)>> \o InsertByGroup(Tail(sorted), x)

RECURSIVE sort_by_group(_)
sort_by_group(l) ==
    IF l = <<>> THEN <<>>
    ELSE InsertByGroup(sort_by_group(SubSeq(l, 1, Len(l) - 1)), l[Len(l)])

(***************************************************************************)
(* The tail of the batch entry points (find-dup.py, find-dup-img.py):      *)
(* filter, sort, bucket by group_number, natural sort of every bucket.     *)
(***************************************************************************)
\* A filter that keeps every item (a bug).
FilterKeepsAll(l) == l

\* [v for v in grouped if v.group_number > 0]
Filtered(l) == SelectSeq(l, LAMBDA v : v.group_number > 0)

RECURSIVE PathsOfGroup(_, _)
\* The bucket of group g: the paths of its items, in the order of the list.
PathsOfGroup(l, g) ==
    IF l = <<>> THEN <<>>
    ELSE (IF Head(l).group_number = g THEN <<Head(l).file_path>> ELSE <<>>)
         \o PathsOfGroup(Tail(l), g)

\* The dict built from the sorted list, before the natural sort.
Buckets(l) ==
    LET sorted == sort_by_group(Filtered(l))
        keys == {sorted[p].group_number : p \in 1..Len(sorted)}
    IN  [g \in keys |-> PathsOfGroup(sorted, g)]

\* Every bucket is sorted naturally, and none of the sorts raises.
Report ==
    /\ pc = "done"
    /\ LET b == Buckets(a)
       IN  /\ \A g \in DOMAIN b : ~SortRaises(b[g])
           /\ grouped' = [g \in DOMAIN b |-> sort_path_naturally(b[g])]
    /\ pc' = "reported"
    /\ UNCHANGED <<value, threadVars, kind, a, idx, idx2, start, compared, reached, calls,
                   simVars, utilVars>>

\* The natural sort of some bucket raises TypeError, which nothing catches.
ReportRaises ==
    /\ pc = "done"
    /\ LET b == Buckets(a)
       IN  \E g \in DOMAIN b : SortRaises(b[g])
    /\ pc' = "TypeError"
    /\ UNCHANGED <<value, threadVars, kind, a, idx, idx2, start, compared, reached, calls,
                   grouped, simVars, utilVars>>

(***************************************************************************)
(* The batch video run (find-dup.py, main) up to the call of mark_groups:  *)
(* for every file get_video_info, a screenshot at each timestamp the file  *)
(* is long enough for, and the hash of every screenshot.  What ffprobe,    *)
(* ffmpeg and the image library answer is the run's input.                 *)
(***************************************************************************)
\* timestamps = [10, 60, 120]
Timestamps == <<10, 60, 120>>

\* The durations get_video_info reports: around each of the first MaxFrames
\* timestamps.
Durations ==
    UNION {{Timestamps[k] - 1, Timestamps[k]} :
               k \in 1..Min(MaxFrames, Len(Timestamps))}

\* The file the extraction loop is at.
video_path == video_files[vidx + 1]

Failed(what) ==
    [failures EXCEPT ![what] = failures[what] \cup {video_path}]

\* `if not path.exists(): ... sys.exit(1)`.
PathMissing ==
    /\ bpc = "start"
    /\ ~path_exists
    /\ bpc' = "exit"
    /\ UNCHANGED <<coreVars, batchRest, path_exists, video_files, vidx,
                   duration, tsidx, screenshots, hidx, hashed_imgs, failures>>

\* The path exists: scan() has returned video_files, the loop begins.
PathFound ==
    /\ bpc = "start"
    /\ path_exists
    /\ bpc' = "file"
    /\ UNCHANGED <<coreVars, batchRest, path_exists, video_files, vidx,
                   duration, tsidx, screenshots, hidx, hashed_imgs, failures>>

\* get_video_info returns; video_obj gets an empty list of screenshots.
Probe ==
    /\ bpc = "file"
    /\ vidx < Len(video_files)
    /\ \E d \in Durations : duration' = d
    /\ screenshots' = <<>>
    /\ tsidx' = 0
    /\ bpc' = "screenshot"
    /\ UNCHANGED <<coreVars, batchRest, path_exists, video_files, vidx, hidx,
                   hashed_imgs, failures>>

\* get_video_info raises: main has no except clause, the finally block
\* removes the temporary directory and the exception ends the run.
ProbeRaises ==
    /\ bpc = "file"
    /\ vidx < Len(video_files)
    /\ failures' = Failed("probe")
    /\ bpc' = "raised"
    /\ UNCHANGED <<coreVars, batchRest, path_exists, video_files, vidx,
                   duration, tsidx, screenshots, hidx, hashed_imgs>>

\* `if sec <= duration` is false: no screenshot at this timestamp.
TooShort ==
    /\ bpc = "screenshot"
    /\ tsidx < Len(Timestamps)
    /\ ~(Timestamps[tsidx + 1] <= duration)
    /\ tsidx' = tsidx + 1
    /\ UNCHANGED <<coreVars, batchRest, path_exists, video_files, vidx,
                   duration, screenshots, hidx, hashed_imgs, bpc, failures>>

\* screenshot() returns: the path joins video_obj.screenshots.
Screenshot ==
    /\ bpc = "screenshot"
    /\ tsidx < Len(Timestamps)
    /\ Timestamps[tsidx + 1] <= duration
    /\ screenshots' = Append(screenshots, Timestamps[tsidx + 1])
    /\ tsidx' = tsidx + 1
    /\ UNCHANGED <<coreVars, batchRest, path_exists, video_files, vidx,
                   duration, hidx, hashed_imgs, bpc, failures>>

\* screenshot() raises (subprocess.run(..., check=True)): the run ends.
ScreenshotRaises ==
    /\ bpc = "screenshot"
    /\ tsidx < Len(Timestamps)
    /\ Timestamps[tsidx + 1] <= duration
    /\ failures' = Failed("screenshot")
    /\ bpc' = "raised"
    /\ UNCHANGED <<coreVars, batchRest, path_exists, video_files, vidx,
                   duration, tsidx, screenshots, hidx, hashed_imgs>>

\* The timestamps are done: `hashed_imgs = []`, the hashing loop begins.
ScreenshotsDone ==
    /\ bpc = "screenshot"
    /\ tsidx >= Len(Timestamps)
    /\ hashed_imgs' = <<>>
    /\ hidx' = 0
    /\ bpc' = "hash"
    /\ UNCHANGED <<coreVars, batchRest, path_exists, video_files, vidx,
                   duration, tsidx, screenshots, failures>>

\* HashableImage(...) succeeds: its fingerprint is appended.
Hash ==
    /\ bpc = "hash"
    /\ hidx < Len(screenshots)
    /\ \E h \in FingerprintsOf(HashBits) : hashed_imgs' = Append(hashed_imgs, h)
    /\ hidx' = hidx + 1
    /\ UNCHANGED <<coreVars, batchRest, path_exists, video_files, vidx,
                   duration, tsidx, screenshots, bpc, failures>>

\* HashableImage(...) raises: the except clause prints and the loop goes on.
HashRaises ==
    /\ bpc = "hash"
    /\ hidx < Len(screenshots)
    /\ failures' = Failed("hash")
    /\ hidx' = hidx + 1
    /\ UNCHANGED <<coreVars, batchRest, path_exists, video_files, vidx,
                   duration, tsidx, screenshots, hashed_imgs, bpc>>

\* The screenshots are done: the file's VideoComparisonObject is stored.
\* video_comparison_objects is a dict in insertion order; a holds its values.
StoreComparisonObject ==
    /\ bpc = "hash"
    /\ hidx >= Len(screenshots)
    /\ a' = Append(a, [file_path |-> video_path, hashed_imgs |-> hashed_imgs,
                       group_number |-> 0])
    /\ vidx' = vidx + 1
    /\ bpc' = "file"
    /\ UNCHANGED <<value, threadVars, kind, idx, idx2, pc, start, compared, reached, calls,
                   grouped, simVars, batchRest, path_exists, video_files,
                   duration, tsidx, screenshots, hidx, hashed_imgs, failures>>

\* The loop is over: `counter = SafeCounter()` and mark_groups is called on
\* the list of the comparison objects.
CallMarkGroups ==
    /\ bpc = "file"
    /\ vidx >= Len(video_files)
    /\ value' = 0
    /\ kind' = "video"
    /\ idx' = 0
    /\ idx2' = 0
    /\ pc' = "outer"
    /\ start' = [a |-> a, value |-> 0]
    /\ calls' = 1
    /\ bpc' = "grouping"
    /\ UNCHANGED <<threadVars, a, compared, reached, grouped, simVars, batchRest,
                   path_exists, video_files, vidx, duration, tsidx,
                   screenshots, hidx, hashed_imgs, failures>>

(***************************************************************************)
(* HashComputer (utils/images.py).  A mode name is a tuple of characters;  *)
(* the hash functions of MODE are named by their definitions.              *)
(***************************************************************************)
\* A lower() that leaves every character as it is (a bug).
LowerKeepsCase(c) == c

\* str.lower() on one character.
Lower(c) ==
    CASE c = "A" -> "a"
      [] c = "H" -> "h"
      [] c = "M" -> "m"
      [] c = "P" -> "p"
      [] c = "S" -> "s"
      [] OTHER -> c

\* mode.lower()
Lowered(text) == [i \in 1..Len(text) |-> Lower(text[i])]

\* HashComputer.MODE: the dict _func_factory() returns.
MODE ==
    [n \in {<<"a", "h", "a", "s", "h">>, <<"p", "h", "a", "s", "h">>} |->
        IF n[1] = "a" THEN "_ahash" ELSE "_phash"]

\* HashComputer.__init__(mode)
HashComputerInit ==
    /\ hpc = "call"
    /\ LET _mode_name == Lowered(mode_name)
       IN  IF _mode_name \in DOMAIN MODE
           THEN self_mode' = MODE[_mode_name]
           ELSE self_mode' = MODE[<<"a", "h", "a", "s", "h">>]
    /\ hpc' = "constructed"
    /\ UNCHANGED <<coreVars, hashRest, mode_name>>

(***************************************************************************)
(* The file system (as pathlib and os present it on a Unix system) and the *)
(* removal helpers of utils/files.py.  A path is the tuple of its names    *)
(* below the top folder, a name a tuple of characters.                     *)
(***************************************************************************)
Top == <<>>

\* The names: v1.mp4, t.txt, C.MP4, .h.mp4, sub, v3.avi, .hid, d.mkv, m.mp4,
\* i.ts and gone.mp4.
N_v1 == <<"v", "1", ".", "m", "p", "4">>
N_txt == <<"t", ".", "t", "x", "t">>
N_upper == <<"C", ".", "M", "P", "4">>
N_hfile == <<".", "h", ".", "m", "p", "4">>
N_sub == <<"s", "u", "b">>
N_v3 == <<"v", "3", ".", "a", "v", "i">>
N_hid == <<".", "h", "i", "d">>
N_deep == <<"d", ".", "m", "k", "v">>
N_mdir == <<"m", ".", "m", "p", "4">>
N_ts == <<"i", ".", "t", "s">>
N_gone == <<"g", "o", "n", "e", ".", "m", "p", "4">>
\* The name _is_readonly_folder probes a folder with.
N_probe ==
    <<".", "t", "e", "m", "p", "_", "t", "e", "s", "t", "_", "f", "i", "l",
      "e">>

\* The regular files and the directories a tree may hold.
FileNodes ==
    {<<N_v1>>, <<N_txt>>, <<N_upper>>, <<N_hfile>>, <<N_sub, N_v3>>,
     <<N_sub, N_hid, N_deep>>, <<N_mdir, N_ts>>}

DirNodes == {Top, <<N_sub>>, <<N_sub, N_hid>>, <<N_mdir>>}

\* A directory's permissions for the user: all, no write, read only, none.
Modes == {"rwx", "r-x", "r--", "---"}

Parent(path) == SubSeq(path, 1, Len(path) - 1)

\* d is path or a directory above it.
IsPrefix(d, path) == Len(d) <= Len(path) /\ SubSeq(path, 1, Len(d)) = d

\* The path can be looked up: every directory above it grants search.
CanReach(path) ==
    \A d \in DirNodes :
        (IsPrefix(d, path) /\ d # path) => dmode[d] \in {"rwx", "r-x"}

\* An entry can be created in or removed from the directory.
CanWriteIn(d) == d \in DirNodes /\ dmode[d] = "rwx"

\* path.unlink(): the error it raises, "none" when the file is removed.
\* unlink removes a regular file from a directory that can be written.
UnlinkError(t, path) ==
    IF ~CanReach(path) THEN "PermissionError"
    ELSE IF path \notin t THEN "FileNotFoundError"
    ELSE IF path \in DirNodes THEN "IsADirectoryError"
    ELSE IF ~CanWriteIn(Parent(path)) THEN "PermissionError"
    ELSE "none"

\* An except clause for the missing file alone (a bug).
CaughtOnlyWhenMissing(err) == err = "FileNotFoundError"

\* `except (FileNotFoundError, PermissionError, OSError, IsADirectoryError)`
Caught(err) ==
    err \in {"FileNotFoundError", "PermissionError", "OSError",
             "IsADirectoryError"}

\* silent_remove(path): the tree it leaves, and "None" when it returns or
\* the exception that leaves it.
silent_remove(t, path) ==
    LET err == UnlinkError(t, path)
    IN  [tree |-> IF err = "none" THEN t \ {path} ELSE t,
         outcome |-> IF err = "none" \/ Caught(err) THEN "None" ELSE err]

\* What send2trash(str(path)) takes out of the tree when it succeeds: the
\* path and, for a directory, everything below it.
Trashed(t, path) == {q \in t : ~IsPrefix(path, q)}

\* A call: which function, on which path, from which tree.
Called(fn, path, use_trash, outcome) ==
    [fn |-> fn, path |-> path, use_trash |-> use_trash, outcome |-> outcome,
     before |-> tree, trash_before |-> trash]

\* silent_remove(path) called directly.
SilentRemove(path) ==
    /\ ncalls < MaxCalls
    /\ tree' = silent_remove(tree, path).tree
    /\ removal' = Called("silent_remove", path, FALSE,
                         silent_remove(tree, path).outcome)
    /\ ncalls' = ncalls + 1
    /\ UNCHANGED <<coreVars, fsRest, dmode, trash, TRASH_SUPPORTED>>

\* safe_remove(path, use_trash) where send2trash is called and returns.
SafeRemoveToTrash(path) ==
    /\ ncalls < MaxCalls
    /\ TRASH_SUPPORTED
    /\ path \in tree
    /\ CanReach(path)
    /\ CanWriteIn(Parent(path))
    /\ tree' = Trashed(tree, path)
    /\ trash' = trash \cup {path}
    /\ removal' = Called("safe_remove", path, TRUE, "None")
    /\ ncalls' = ncalls + 1
    /\ UNCHANGED <<coreVars, fsRest, dmode, TRASH_SUPPORTED>>

\* safe_remove(path, use_trash) where send2trash raises (the path is missing
\* or cannot be moved, or there is no trash to move it to): the except
\* clause calls silent_remove(path).
SafeRemoveFallback(path) ==
    /\ ncalls < MaxCalls
    /\ TRASH_SUPPORTED
    /\ tree' = silent_remove(tree, path).tree
    /\ removal' = Called("safe_remove", path, TRUE,
                         silent_remove(tree, path).outcome)
    /\ ncalls' = ncalls + 1
    /\ UNCHANGED <<coreVars, fsRest, dmode, trash, TRASH_SUPPORTED>>

\* safe_remove(path, use_trash) with use_trash false or without send2trash:
\* the else branch calls silent_remove(path).
SafeRemovePlain(path, use_trash) ==
    /\ ncalls < MaxCalls
    /\ ~(use_trash /\ TRASH_SUPPORTED)
    /\ tree' = silent_remove(tree, path).tree
    /\ removal' = Called("safe_remove", path, use_trash,
                         silent_remove(tree, path).outcome)
    /\ ncalls' = ncalls + 1
    /\ UNCHANGED <<coreVars, fsRest, dmode, trash, TRASH_SUPPORTED>>

(***************************************************************************)
(* scan (utils/files.py), on a Unix system.                                *)
(***************************************************************************)
VIDEO_FILE_SUFFIXES ==
    {<<".", "a", "s", "f">>, <<".", "a", "v", "i">>, <<".", "f", "l", "v">>,
     <<".", "h", "e", "v", "c">>, <<".", "m", "4", "v">>,
     <<".", "m", "k", "v">>, <<".", "m", "o", "v">>, <<".", "m", "p", "4">>,
     <<".", "m", "p", "e", "g">>, <<".", "m", "p", "g">>, <<".", "r", "m">>,
     <<".", "r", "m", "v", "b">>, <<".", "t", "s">>, <<".", "v", "o", "b">>,
     <<".", "w", "e", "b", "m">>, <<".", "w", "m", "v">>}

\* pathlib's suffix: the name from its last dot on, empty when the name has
\* no dot, begins with its only dot or ends with a dot.
Suffix(name) ==
    LET p == LastDot(name)
    IN  IF 1 < p /\ p < Len(name) THEN SubSeq(name, p, Len(name)) ELSE <<>>

\* A hidden test that finds nothing hidden (a bug).
is_hidden_never(path) == FALSE

\* _is_hidden, the branch for Unix: path.name.startswith('.')
is_hidden(path) == Len(path[Len(path)]) > 0 /\ path[Len(path)][1] = "."

\* A regular file and a directory that bear the probe's name before scan is
\* called.
ProbeFile == <<N_sub, N_probe>>
ProbeDir == <<N_mdir, N_probe>>

\* item.is_file() and item.is_dir()
is_file(q) == q \in FileNodes \/ q = ProbeFile
is_dir(q) == q \in DirNodes \/ q = ProbeDir

\* The permissions of a directory; the directory named like the probe has
\* them all.
ModeOf(d) == IF d \in DirNodes THEN dmode[d] ELSE "rwx"

\* test_file.touch(): the error it raises, "none" when the file exists
\* afterwards; an existing entry only has its times updated.
TouchError(t, p) ==
    IF ~CanReach(p) THEN "PermissionError"
    ELSE IF p \in t THEN "none"
    ELSE IF ~CanWriteIn(Parent(p)) THEN "PermissionError"
    ELSE "none"

\* test_file.unlink() after touch, t being the tree before touch: as
\* UnlinkError, but the entry is a directory when a directory of the
\* probe's name was there before.
ProbeUnlinkError(t, p) ==
    IF p \in t /\ is_dir(p) THEN "IsADirectoryError"
    ELSE UnlinkError(t \cup {p}, p)

\* _is_readonly_folder: the value returned and the tree it leaves.  Every
\* error of touch and unlink is an OSError and makes the folder read-only.
is_readonly_folder(t, d) ==
    LET test_file == Append(d, N_probe)
        touched == t \cup {test_file}
    IN  IF TouchError(t, test_file) # "none"
        THEN [readonly |-> TRUE, tree |-> t]
        ELSE IF ProbeUnlinkError(t, test_file) # "none"
        THEN [readonly |-> TRUE, tree |-> touched]
        ELSE [readonly |-> FALSE, tree |-> touched \ {test_file}]

\* The entries current_folder.iterdir() yields.
Entries(t, d) == {q \in t : Len(q) = Len(d) + 1 /\ IsPrefix(d, q)}

RECURSIVE scan_folder(_, _, _)
\* _scan(current_folder): the files it adds to video_files and the entries
\* its probes remove from the tree.  iterdir raises PermissionError for a
\* folder that cannot be read or reached, and is_file raises it for the
\* first entry examined in a folder without search permission; either ends
\* the scan of the folder, with nothing added.  The probe of a folder gives
\* the same answer each time it is repeated, and the entries were listed
\* before the first probe.
scan_folder(t, d, args) ==
    IF ~CanReach(d) \/ ModeOf(d) = "---"
    THEN [video_files |-> {}, removed |-> {}]
    ELSE LET items == {q \in Entries(t, d) :
                           ~(args.ignore_hidden /\ is_hidden(q))}
             videos == {q \in items :
                           /\ is_file(q)
                           /\ Lowered(Suffix(q[Len(q)]))
                                  \in VIDEO_FILE_SUFFIXES}
             probed == args.ignore_readonly_folder /\ videos # {}
             probe == is_readonly_folder(t, d)
             below == {scan_folder(t, q, args) :
                          q \in {i \in items : is_dir(i) /\ args.recursive}}
         IN  IF ModeOf(d) = "r--"
             THEN [video_files |-> {}, removed |-> {}]
             ELSE [video_files |->
                       {q \in videos : ~(probed /\ probe.readonly)}
                       \cup UNION {r.video_files : r \in below},
                   removed |->
                       (IF probed THEN t \ probe.tree ELSE {})
                       \cup UNION {r.removed : r \in below}]

\* scan(folder_path, ignore_hidden, ignore_readonly_folder, recursive)
Scan ==
    /\ scpc = "call"
    /\ LET r == scan_folder(tree, scan_args.folder_path, scan_args)
       IN  /\ scanned' = r.video_files
           /\ tree' = tree \ r.removed
    /\ scpc' = "returned"
    /\ UNCHANGED <<coreVars, scanRest, dmode, trash, TRASH_SUPPORTED, ncalls,
                   removal, scan_args, scan_tree>>

(***************************************************************************)
(* The tkinter GUI (GUI.py).  The main thread runs the event loop: it      *)
(* handles the user's clicks and the callbacks scheduled with after, also  *)
(* inside a call of root.update(), which returns when no callback is       *)
(* pending.  Every scan runs in a worker thread of its own.                *)
(***************************************************************************)
windowVars == <<scan_btn, folder_path, video_items, main>>
queueVars == <<after_queue, scheduled>>
workerVars == <<wpc, wresult, wfiles, wseen, wtemp>>

\* The files a scan may find.
GuiFiles == 1..MaxGuiFiles

\* root.after(0, self._update_gui_with_results, _temp) and
\* root.after(0, lambda: [scan_btn.config(state='normal', ...), update()])
ResultsCallback(w, objects) == [cb |-> "results", w |-> w, objects |-> objects]
EnableCallback(w) == [cb |-> "enable", w |-> w, objects |-> <<>>]

\* _select_folder: the dialog returns a folder, or "" when it is cancelled.
\* "gone" is a folder that no longer exists when Scan is clicked.
SelectFolder ==
    /\ \E folder \in {"", "dir", "gone"} :
          folder_path' = IF folder # "" THEN folder ELSE folder_path
    /\ UNCHANGED <<coreVars, guiRest, scan_btn, video_items, main, queueVars,
                   nscans, workerVars>>

\* A _scan_folder that leaves the button as it is (a bug).
ScanFolderLeavesButton ==
    /\ scan_btn = "normal"
    /\ nscans < MaxScans
    /\ IF folder_path \in {"", "gone"}
       THEN UNCHANGED <<video_items, main, nscans, wpc>>
       ELSE /\ video_items' = <<>>
            /\ nscans' = nscans + 1
            /\ wpc' = [wpc EXCEPT ![nscans + 1] = "pending"]
            /\ main' = Append(main, [f |-> "scan_update", w |-> nscans + 1])
    /\ UNCHANGED <<coreVars, guiRest, scan_btn, folder_path, queueVars,
                   wresult, wfiles, wseen, wtemp>>

\* _scan_folder up to root.update(), called by a click on the Scan button,
\* which invokes its command only when it is not disabled.
ScanFolder ==
    /\ scan_btn = "normal"
    /\ nscans < MaxScans
    /\ IF folder_path \in {"", "gone"}
       THEN UNCHANGED <<scan_btn, video_items, main, nscans, wpc>>
       ELSE /\ scan_btn' = "disabled"
            /\ video_items' = <<>>
            /\ nscans' = nscans + 1
            /\ wpc' = [wpc EXCEPT ![nscans + 1] = "pending"]
            /\ main' = Append(main, [f |-> "scan_update", w |-> nscans + 1])
    /\ UNCHANGED <<coreVars, guiRest, folder_path, queueVars, wresult, wfiles, wseen, wtemp>>

\* root.update() at the end of _scan_folder returns; scan_thread.start().
StartThread ==
    /\ main # <<>>
    /\ main[Len(main)].f = "scan_update"
    /\ after_queue = <<>>
    /\ wpc' = [wpc EXCEPT ![main[Len(main)].w] = "scan"]
    /\ main' = SubSeq(main, 1, Len(main) - 1)
    /\ UNCHANGED <<coreVars, guiRest, scan_btn, folder_path, video_items,
                   queueVars, nscans, wresult, wfiles, wseen, wtemp>>

\* _run_scan: scan returns the set video_files.
RunScanReturns(w) ==
    /\ wpc[w] = "scan"
    /\ \E found \in SUBSET GuiFiles : wfiles' = [wfiles EXCEPT ![w] = found]
    /\ wresult' = [wresult EXCEPT ![w] = "returned"]
    /\ wpc' = [wpc EXCEPT ![w] = "probe"]
    /\ UNCHANGED <<coreVars, guiRest, windowVars, queueVars, nscans, wseen,
                   wtemp>>

\* _run_scan: scan raises; control goes to the finally block.
RunScanRaises(w) ==
    /\ wpc[w] = "scan"
    /\ wresult' = [wresult EXCEPT ![w] = "raised"]
    /\ wpc' = [wpc EXCEPT ![w] = "finally"]
    /\ UNCHANGED <<coreVars, guiRest, windowVars, queueVars, nscans, wfiles,
                   wseen, wtemp>>

\* get_video_info returns: a VideoObject is appended to _temp.
VideoInfoReturns(w) ==
    /\ wpc[w] = "probe"
    /\ \E vp \in wfiles[w] \ wseen[w] :
          /\ wseen' = [wseen EXCEPT ![w] = wseen[w] \cup {vp}]
          /\ wtemp' = [wtemp EXCEPT ![w] = Append(wtemp[w], vp)]
    /\ UNCHANGED <<coreVars, guiRest, windowVars, queueVars, nscans, wpc,
                   wresult, wfiles>>

\* get_video_info raises: `except Exception: ... continue`.
VideoInfoRaises(w) ==
    /\ wpc[w] = "probe"
    /\ \E vp \in wfiles[w] \ wseen[w] :
          wseen' = [wseen EXCEPT ![w] = wseen[w] \cup {vp}]
    /\ UNCHANGED <<coreVars, guiRest, windowVars, queueVars, nscans, wpc,
                   wresult, wfiles, wtemp>>

\* The loop is over: root.after(0, self._update_gui_with_results, _temp).
PostResults(w) ==
    /\ wpc[w] = "probe"
    /\ wseen[w] = wfiles[w]
    /\ after_queue' = Append(after_queue, ResultsCallback(w, wtemp[w]))
    /\ scheduled' = Append(scheduled, ResultsCallback(w, wtemp[w]))
    /\ wpc' = [wpc EXCEPT ![w] = "finally"]
    /\ UNCHANGED <<coreVars, guiRest, windowVars, nscans, wresult, wfiles, wseen, wtemp>>

\* A finally block that schedules nothing after an exception (a bug).
FinallyOnlyOnSuccess(w) ==
    /\ wpc[w] = "finally"
    /\ IF wresult[w] = "raised"
       THEN UNCHANGED queueVars
       ELSE /\ after_queue' = Append(after_queue, EnableCallback(w))
            /\ scheduled' = Append(scheduled, EnableCallback(w))
    /\ wpc' = [wpc EXCEPT ![w] = "return"]
    /\ UNCHANGED <<coreVars, guiRest, windowVars, nscans, wresult, wfiles, wseen, wtemp>>

\* finally: root.after(0, lambda: [...]) schedules the re-enabling.
Finally(w) ==
    /\ wpc[w] = "finally"
    /\ after_queue' = Append(after_queue, EnableCallback(w))
    /\ scheduled' = Append(scheduled, EnableCallback(w))
    /\ wpc' = [wpc EXCEPT ![w] = "return"]
    /\ UNCHANGED <<coreVars, guiRest, windowVars, nscans, wresult, wfiles, wseen, wtemp>>

\* _run_scan returns and the thread ends.
ThreadEnds(w) ==
    /\ wpc[w] = "return"
    /\ wpc' = [wpc EXCEPT ![w] = "ended"]
    /\ UNCHANGED <<coreVars, guiRest, windowVars, queueVars, nscans, wresult,
                   wfiles, wseen, wtemp>>

\* The main thread runs _update_gui_with_results: add_video_item for every
\* object.
UpdateGuiWithResults ==
    /\ after_queue # <<>>
    /\ Head(after_queue).cb = "results"
    /\ video_items' = video_items \o Head(after_queue).objects
    /\ after_queue' = Tail(after_queue)
    /\ UNCHANGED <<coreVars, guiRest, scan_btn, folder_path, main, scheduled,
                   nscans, workerVars>>

\* The main thread runs the lambda of the finally block: the button is
\* configured normal, then root.update() is called.
EnableButton ==
    /\ after_queue # <<>>
    /\ Head(after_queue).cb = "enable"
    /\ scan_btn' = "normal"
    /\ main' = Append(main, [f |-> "enable_update", w |-> Head(after_queue).w])
    /\ after_queue' = Tail(after_queue)
    /\ UNCHANGED <<coreVars, guiRest, folder_path, video_items, scheduled,
                   nscans, workerVars>>

\* root.update() in the lambda returns, and the lambda with it.
EnableReturns ==
    /\ main # <<>>
    /\ main[Len(main)].f = "enable_update"
    /\ after_queue = <<>>
    /\ main' = SubSeq(main, 1, Len(main) - 1)
    /\ UNCHANGED <<coreVars, guiRest, scan_btn, folder_path, video_items,
                   queueVars, nscans, workerVars>>

\* _delete_item(item_frame): the delete button of an item of the list.
DeleteItem ==
    /\ \E k \in 1..Len(video_items) :
          video_items' = SubSeq(video_items, 1, k - 1)
                             \o SubSeq(video_items, k + 1, Len(video_items))
    /\ UNCHANGED <<coreVars, guiRest, scan_btn, folder_path, main, queueVars,
                   nscans, workerVars>>

(***************************************************************************)
(* The group window of the wx programs (find-dup-vid-wxpython.py; the      *)
(* window of find-dup-img-wxpython.py counts in the same way).  A click on *)
(* a Delete button removes the file and posts an event to the window,      *)
(* which handles it later in its event loop.                               *)
(***************************************************************************)
\* The members a group may have.
GroupMembers == 1..MaxGroup

\* abs(x)
abs(x) == IF x < 0 THEN 0 - x ELSE x

\* VideoDisplayPanel.on_delete of the panel of p: safe_remove, which removes
\* the file or swallows the error of unlink, then the button is disabled
\* and the event posted.  A disabled button sends no event.
OnDelete(p) ==
    /\ gwpc = "open"
    /\ p \in enabled
    /\ \E removed \in BOOLEAN :
          gone' = IF removed THEN gone \cup {p} ELSE gone
    /\ enabled' = enabled \ {p}
    /\ posted' = posted + 1
    /\ UNCHANGED <<coreVars, gwRest, fast_mode, video_paths, total_videos,
                   panels, deleted_count, gwpc, closed_by>>

\* GroupWindow.on_video_deleted, for one posted event.
OnVideoDeleted ==
    /\ gwpc = "open"
    /\ posted > 0
    /\ posted' = posted - 1
    /\ deleted_count' = deleted_count + 1
    /\ IF fast_mode /\ abs(total_videos - deleted_count') <= 1
       THEN /\ gwpc' = "closed"
            /\ closed_by' = "fast_mode"
       ELSE UNCHANGED <<gwpc, closed_by>>
    /\ UNCHANGED <<coreVars, gwRest, fast_mode, video_paths, total_videos,
                   panels, enabled, gone>>

\* The button "Close group": lambda e: self.Close().
CloseGroup ==
    /\ gwpc = "open"
    /\ gwpc' = "closed"
    /\ closed_by' = "user"
    /\ UNCHANGED <<coreVars, gwRest, fast_mode, video_paths, total_videos,
                   panels, enabled, deleted_count, posted, gone>>

(***************************************************************************)
(* The runs that are checked.                                              *)
(***************************************************************************)
\* The paths of the items of a run, by position in the list: five distinct
\* files, /v/a2.mp4, /v/a10.mp4, /v2/a1.mp4, /v/a2.avi and /v/a02.mp4.
PathPool ==
    << << <<"/">>, <<"v">>, <<"a", "2", ".", "m", "p", "4">> >>,
       << <<"/">>, <<"v">>, <<"a", "1", "0", ".", "m", "p", "4">> >>,
       << <<"/">>, <<"v", "2">>, <<"a", "1", ".", "m", "p", "4">> >>,
       << <<"/">>, <<"v">>, <<"a", "2", ".", "a", "v", "i">> >>,
       << <<"/">>, <<"v">>, <<"a", "0", "2", ".", "m", "p", "4">> >> >>

Fingerprints == FingerprintsOf(HashBits)

FrameLists == UNION {[1..m -> Fingerprints] : m \in 0..MaxFrames}

\* ImageComparisonObject(file_path, hashed_img), group_number = 0.
ImageComparisonObject(path, h) ==
    [file_path |-> path, hashed_img |-> h, group_number |-> 0]

\* VideoComparisonObject(file_path, hashed_imgs), group_number = 0.
VideoComparisonObject(path, hs) ==
    [file_path |-> path, hashed_imgs |-> hs, group_number |-> 0]

ThreadsIdle ==
    /\ lock = NoThread
    /\ ThreadsInit

MarkIdle ==
    /\ kind = "none"
    /\ a = <<>>
    /\ idx = 0
    /\ idx2 = 0
    /\ pc = "idle"
    /\ start = [a |-> <<>>, value |-> 0]
    /\ compared = {}
    /\ reached = <<>>
    /\ calls = 0
    /\ grouped = <<>>

SimIdle ==
    /\ fa = <<>>
    /\ fb = <<>>
    /\ verdict = [done |-> FALSE, similar |-> FALSE, identical |-> FALSE]

SortIdle ==
    /\ path_list = <<>>
    /\ sorted_list = <<>>
    /\ spc = "idle"

BatchIdle ==
    /\ path_exists = TRUE
    /\ video_files = <<>>
    /\ vidx = 0
    /\ duration = 0
    /\ tsidx = 0
    /\ screenshots = <<>>
    /\ hidx = 0
    /\ hashed_imgs = <<>>
    /\ bpc = "idle"
    /\ failures = [probe |-> {}, screenshot |-> {}, hash |-> {}]

HashIdle ==
    /\ mode_name = <<>>
    /\ self_mode = "unset"
    /\ hpc = "idle"

NoCall ==
    [fn |-> "none", path |-> <<>>, use_trash |-> FALSE, outcome |-> "none",
     before |-> {}, trash_before |-> {}]

FsIdle ==
    /\ tree = {}
    /\ dmode = [d \in DirNodes |-> "rwx"]
    /\ trash = {}
    /\ TRASH_SUPPORTED = FALSE
    /\ ncalls = 0
    /\ removal = NoCall

ScanIdle ==
    /\ scan_args = [folder_path |-> <<>>, ignore_hidden |-> TRUE,
                    ignore_readonly_folder |-> TRUE, recursive |-> TRUE]
    /\ scanned = {}
    /\ scpc = "idle"
    /\ scan_tree = {}

Workers == 1..MaxScans

GuiIdle ==
    /\ scan_btn = "normal"
    /\ folder_path = ""
    /\ video_items = <<>>
    /\ main = <<>>
    /\ after_queue = <<>>
    /\ scheduled = <<>>
    /\ nscans = 0
    /\ wpc = [w \in Workers |-> "unstarted"]
    /\ wresult = [w \in Workers |-> "none"]
    /\ wfiles = [w \in Workers |-> {}]
    /\ wseen = [w \in Workers |-> {}]
    /\ wtemp = [w \in Workers |-> <<>>]

GwIdle ==
    /\ fast_mode = FALSE
    /\ video_paths = {}
    /\ total_videos = 0
    /\ panels = {}
    /\ enabled = {}
    /\ deleted_count = 0
    /\ posted = 0
    /\ gwpc = "none"
    /\ gone = {}
    /\ closed_by = "none"

UiIdle == GuiIdle /\ GwIdle

UtilIdle ==
    SortIdle /\ BatchIdle /\ HashIdle /\ FsIdle /\ ScanIdle /\ UiIdle

\* ---- SafeCounter shared by NThreads threads, each calling get_int once.
CounterInit ==
    /\ SafeCounterInit
    /\ ThreadsInit
    /\ MarkIdle
    /\ SimIdle
    /\ UtilIdle

CounterNext ==
    \E t \in Threads :
        \/ Call(t)
        \/ Acquire(t)
        \/ Load(t)
        \/ Store(t)
        \/ Return(t)
        \/ Release(t)

SpecCounter == CounterInit /\ [][CounterNext]_vars

\* ---- A batch run from the call of mark_groups on: every list of up to
\* MaxImages images or MaxVideos videos, with a fresh or a used counter.
MarkInit ==
    /\ value \in 0..MaxStartValue
    /\ ThreadsIdle
    /\ SimIdle
    /\ UtilIdle
    /\ \/ /\ kind = "image"
          /\ \E n \in 0..MaxImages : \E hs \in [1..n -> Fingerprints \cup {None}] :
                a = [i \in 1..n |-> ImageComparisonObject(PathPool[i], hs[i])]
       \/ /\ kind = "video"
          /\ \E n \in 0..MaxVideos : \E hs \in [1..n -> FrameLists] :
                a = [i \in 1..n |-> VideoComparisonObject(PathPool[i], hs[i])]
    /\ idx = 0
    /\ idx2 = 0
    /\ pc = "outer"
    /\ start = [a |-> a, value |-> value]
    /\ compared = {}
    /\ reached = <<>>
    /\ calls = 1
    /\ grouped = <<>>

MarkNext ==
    \/ OuterExhausted
    \/ OuterBreak
    \/ OuterSkip
    \/ OuterEnter
    \/ InnerExhausted
    \/ InnerSkip
    \/ InnerMiss
    \/ InnerNewGroup
    \/ InnerJoin
    \/ Report
    \/ ReportRaises

SpecMark == MarkInit /\ [][MarkNext]_vars

\* ---- mark_groups called again and again on the list it returned.
RemarkNext ==
    \/ OuterExhausted
    \/ OuterBreak
    \/ OuterSkip
    \/ OuterEnter
    \/ InnerExhausted
    \/ InnerSkip
    \/ InnerMiss
    \/ InnerNewGroup
    \/ InnerJoin
    \/ MarkAgain

SpecRemark == MarkInit /\ [][RemarkNext]_vars

\* ---- The similarity relation on every pair of CmpBits-bit fingerprints.
CompareImages ==
    /\ ~verdict.done
    /\ verdict' = [done |-> TRUE,
                   similar |-> is_similar_img(fa, fb),
                   identical |-> is_identical_img(fa, fb)]
    /\ UNCHANGED <<counterVars, markVars, fa, fb, utilVars>>

SimInit ==
    /\ SafeCounterInit
    /\ ThreadsInit
    /\ MarkIdle
    /\ fa \in FingerprintsOf(CmpBits)
    /\ fb \in FingerprintsOf(CmpBits)
    /\ verdict = [done |-> FALSE, similar |-> FALSE, identical |-> FALSE]
    /\ UtilIdle

SimNext == CompareImages

SpecSimilar == SimInit /\ [][SimNext]_vars

\* ---- sort_path_naturally called on every list of up to MaxPaths distinct
\* paths of SortPool: a2.mp4, a10.mp4, a1.mp4, a2.avi, a02.mp4, dir/x.mp4 and
\* dir2/x.mp4.
SortPool ==
    << << <<"a", "2", ".", "m", "p", "4">> >>,
       << <<"a", "1", "0", ".", "m", "p", "4">> >>,
       << <<"a", "1", ".", "m", "p", "4">> >>,
       << <<"a", "2", ".", "a", "v", "i">> >>,
       << <<"a", "0", "2", ".", "m", "p", "4">> >>,
       << <<"d", "i", "r">>, <<"x", ".", "m", "p", "4">> >>,
       << <<"d", "i", "r", "2">>, <<"x", ".", "m", "p", "4">> >> >>

\* The lists of distinct paths of the pool, up to MaxPaths long.
PathLists ==
    {[i \in 1..Len(f) |-> SortPool[f[i]]] :
        f \in {g \in UNION {[1..n -> 1..Len(SortPool)] : n \in 0..MaxPaths} :
                  \A x, y \in 1..Len(g) : x # y => g[x] # g[y]}}

\* sorted() orders every pair of keys: sort_path_naturally returns.
SortPaths ==
    /\ spc = "call"
    /\ ~SortRaises(path_list)
    /\ sorted_list' = sort_path_naturally(path_list)
    /\ spc' = "returned"
    /\ UNCHANGED <<coreVars, path_list, sortRest>>

\* sorted() meets a str and an int: TypeError leaves sort_path_naturally.
SortPathsRaises ==
    /\ spc = "call"
    /\ SortRaises(path_list)
    /\ spc' = "TypeError"
    /\ UNCHANGED <<coreVars, path_list, sorted_list, sortRest>>

SortInit ==
    /\ SafeCounterInit
    /\ ThreadsInit
    /\ MarkIdle
    /\ SimIdle
    /\ BatchIdle
    /\ HashIdle
    /\ FsIdle
    /\ ScanIdle
    /\ UiIdle
    /\ path_list \in PathLists
    /\ sorted_list = <<>>
    /\ spc = "call"

SortNext ==
    \/ SortPaths
    \/ SortPathsRaises

SpecSort == SortInit /\ [][SortNext]_vars

\* ---- A batch video run from its start: up to MaxBatchFiles files of the
\* pool, the target path present or not.
FileLists ==
    {[i \in 1..Len(f) |-> PathPool[f[i]]] :
        f \in {g \in UNION {[1..n -> 1..MaxBatchPool] : n \in 0..MaxBatchFiles} :
                  \A x, y \in 1..Len(g) : x # y => g[x] # g[y]}}

BatchInit ==
    /\ SafeCounterInit
    /\ ThreadsInit
    /\ MarkIdle
    /\ SimIdle
    /\ SortIdle
    /\ HashIdle
    /\ FsIdle
    /\ ScanIdle
    /\ UiIdle
    /\ path_exists \in BOOLEAN
    /\ video_files \in FileLists
    /\ vidx = 0
    /\ duration = 0
    /\ tsidx = 0
    /\ screenshots = <<>>
    /\ hidx = 0
    /\ hashed_imgs = <<>>
    /\ bpc = "start"
    /\ failures = [probe |-> {}, screenshot |-> {}, hash |-> {}]

BatchNext ==
    \/ PathMissing
    \/ PathFound
    \/ Probe
    \/ ProbeRaises
    \/ TooShort
    \/ Screenshot
    \/ ScreenshotRaises
    \/ ScreenshotsDone
    \/ Hash
    \/ HashRaises
    \/ StoreComparisonObject
    \/ CallMarkGroups
    \/ MarkNext

SpecBatch == BatchInit /\ [][BatchNext]_vars

\* ---- HashComputer constructed with every spelling of "ahash" and "phash"
\* in upper and lower case, and with names MODE does not have.
\* The pairs of an upper-case letter and its lower-case letter.
CasePairs == {<<"A", "a">>, <<"H", "h">>, <<"P", "p">>, <<"S", "s">>}

\* The name is the word up to the case of its letters.
IsSpelling(name, word) ==
    /\ Len(name) = Len(word)
    /\ \A i \in 1..Len(name) :
          name[i] = word[i] \/ <<name[i], word[i]>> \in CasePairs

Spellings(word) ==
    {t \in [1..Len(word) -> {"a", "h", "p", "s", "A", "H", "P", "S"}] :
        IsSpelling(t, word)}

ModeNames ==
    Spellings(<<"a", "h", "a", "s", "h">>)
        \cup Spellings(<<"p", "h", "a", "s", "h">>)
        \cup {<<>>,
              <<"d", "h", "a", "s", "h">>,
              <<"c", "o", "l", "o", "r">>,
              <<"a", "h", "a", "s", "h", " ">>,
              <<"a", "h", "a", "s">>,
              <<"p", "h", "a", "s", "h", "2">>,
              <<"a", "v", "e", "r", "a", "g", "e">>}

HashInit ==
    /\ SafeCounterInit
    /\ ThreadsInit
    /\ MarkIdle
    /\ SimIdle
    /\ SortIdle
    /\ BatchIdle
    /\ FsIdle
    /\ ScanIdle
    /\ UiIdle
    /\ mode_name \in ModeNames
    /\ self_mode = "unset"
    /\ hpc = "call"

HashNext == HashComputerInit

SpecHash == HashInit /\ [][HashNext]_vars

\* ---- Up to MaxCalls calls of silent_remove and safe_remove, one after the
\* other, on files, directories and a missing path of a tree whose top folder
\* and sub folder may be read-only.
RemovablePaths == (FileNodes \cup DirNodes \cup {<<N_gone>>}) \ {Top}

RemoveInit ==
    /\ SafeCounterInit
    /\ ThreadsInit
    /\ MarkIdle
    /\ SimIdle
    /\ SortIdle
    /\ BatchIdle
    /\ HashIdle
    /\ ScanIdle
    /\ UiIdle
    /\ tree = FileNodes \cup DirNodes
    /\ dmode \in {m \in [DirNodes -> {"rwx", "r-x"}] :
                     m[<<N_sub, N_hid>>] = "rwx" /\ m[<<N_mdir>>] = "rwx"}
    /\ trash = {}
    /\ TRASH_SUPPORTED \in BOOLEAN
    /\ ncalls = 0
    /\ removal = NoCall

RemoveNext ==
    \E path \in RemovablePaths :
        \/ SilentRemove(path)
        \/ SafeRemoveToTrash(path)
        \/ SafeRemoveFallback(path)
        \/ \E use_trash \in BOOLEAN : SafeRemovePlain(path, use_trash)

SpecRemove == RemoveInit /\ [][RemoveNext]_vars

\* ---- scan called on every folder of the tree, with every combination of
\* its flags and of the folders' permissions.
ScanInit ==
    /\ SafeCounterInit
    /\ ThreadsInit
    /\ MarkIdle
    /\ SimIdle
    /\ SortIdle
    /\ BatchIdle
    /\ HashIdle
    /\ tree \in {FileNodes \cup DirNodes \cup named :
                   named \in SUBSET {ProbeFile, ProbeDir}}
    /\ dmode \in [DirNodes -> Modes]
    /\ trash = {}
    /\ TRASH_SUPPORTED = FALSE
    /\ ncalls = 0
    /\ removal = NoCall
    /\ scan_args \in [folder_path : DirNodes, ignore_hidden : BOOLEAN,
                      ignore_readonly_folder : BOOLEAN, recursive : BOOLEAN]
    /\ scanned = {}
    /\ scpc = "call"
    /\ scan_tree = tree
    /\ UiIdle

ScanNext == Scan

SpecScan == ScanInit /\ [][ScanNext]_vars

\* ---- The tkinter GUI from its start: the user browses, clicks Scan up
\* to MaxScans times and deletes items, while the workers run.
GuiInit ==
    /\ SafeCounterInit
    /\ ThreadsInit
    /\ MarkIdle
    /\ SimIdle
    /\ SortIdle
    /\ BatchIdle
    /\ HashIdle
    /\ FsIdle
    /\ ScanIdle
    /\ GwIdle
    /\ GuiIdle

GuiNext ==
    \/ SelectFolder
    \/ ScanFolder
    \/ StartThread
    \/ UpdateGuiWithResults
    \/ EnableButton
    \/ EnableReturns
    \/ DeleteItem
    \/ \E w \in Workers :
          \/ RunScanReturns(w)
          \/ RunScanRaises(w)
          \/ VideoInfoReturns(w)
          \/ VideoInfoRaises(w)
          \/ PostResults(w)
          \/ Finally(w)
          \/ ThreadEnds(w)

SpecGui == GuiInit /\ [][GuiNext]_vars

\* The same with the scheduling the program runs under: every thread that
\* can take a step takes it in the end, and the event loop of the main
\* thread runs every callback and returns from every update().
GuiFairness ==
    /\ WF_vars(StartThread)
    /\ WF_vars(UpdateGuiWithResults)
    /\ WF_vars(EnableButton)
    /\ WF_vars(EnableReturns)
    /\ \A w \in Workers :
          /\ WF_vars(RunScanReturns(w) \/ RunScanRaises(w))
          /\ WF_vars(VideoInfoReturns(w) \/ VideoInfoRaises(w))
          /\ WF_vars(PostResults(w))
          /\ WF_vars(Finally(w))
          /\ WF_vars(ThreadEnds(w))

SpecGuiLive == GuiInit /\ [][GuiNext]_vars /\ GuiFairness

\* ---- A group window from GroupWindow.__init__: a group of two or more
\* paths, of which with_thumbs have a non-empty list in video_thumbs.
GroupInit ==
    /\ SafeCounterInit
    /\ ThreadsInit
    /\ MarkIdle
    /\ SimIdle
    /\ SortIdle
    /\ BatchIdle
    /\ HashIdle
    /\ FsIdle
    /\ ScanIdle
    /\ GuiIdle
    /\ fast_mode \in BOOLEAN
    /\ video_paths \in {g \in SUBSET GroupMembers : Cardinality(g) >= 2}
    /\ \E with_thumbs \in SUBSET GroupMembers :
          panels = {vp \in video_paths : vp \in with_thumbs}
    /\ total_videos = Cardinality(video_paths)
    /\ enabled = panels
    /\ deleted_count = 0
    /\ posted = 0
    /\ gwpc = "open"
    /\ gone = {}
    /\ closed_by = "none"

GroupNext ==
    \/ \E p \in GroupMembers : OnDelete(p)
    \/ OnVideoDeleted
    \/ CloseGroup

SpecGroup == GroupInit /\ [][GroupNext]_vars

\* The same with the event loop of wx, which handles every posted event.
SpecGroupLive == GroupInit /\ [][GroupNext]_vars /\ WF_vars(OnVideoDeleted)

(***************************************************************************)
(* Properties.                                                             *)
(***************************************************************************)
\* mark_groups has returned.
After == pc \in {"done", "reported", "TypeError"}

\* The comparison of the items at positions i and j of the list.
Sim(i, j) == visual_compare(kind, a[i], a[j])

GroupIds(l) == {l[i].group_number : i \in 1..Len(l)} \ {0}

Returned(t) == tpc[t] \in {"release", "done"}

AllDone == \A t \in Threads : tpc[t] = "done"

\* C1: the values get_int returns to concurrent callers are pairwise
\* distinct, are exactly 1..N once all N callers have returned, and the k-th
\* caller to enter get_int's critical section (the k-th call, when the calls
\* are made one after the other) is returned k.
C1_CounterHandsOutDistinctIds ==
    /\ \A t1, t2 \in Threads :
          (t1 # t2 /\ Returned(t1) /\ Returned(t2)) => ret[t1] # ret[t2]
    /\ AllDone => {ret[t] : t \in Threads} = 1..NThreads
    /\ \A k \in 1..Len(order) : Returned(order[k]) => ret[order[k]] = k

\* All callers have returned, and thread 1 was not the first to get in.
C1_Witness == AllDone /\ order[1] # 1 /\ order[NThreads] # NThreads

\* C2: after mark_groups on fresh items with a fresh counter the non-zero
\* group numbers are exactly 1..k, k the number of groups, and the counter
\* has handed out k ids.
C2_GroupIdsDense ==
    (After /\ start.value = 0) =>
        LET ids == GroupIds(a)
        IN  ids = 1..Cardinality(ids) /\ value = Cardinality(ids)

\* A pass with a fresh counter that formed two groups.
C2_Witness == pc = "done" /\ start.value = 0 /\ GroupIds(a) = {1, 2}

RECURSIVE RefInner(_, _, _, _, _)
\* The inner loop of the reference algorithm, `for j in i+1..N-1`.
RefInner(k, l, v, i, j) ==
    IF j > Len(l) THEN [a |-> l, value |-> v]
    ELSE IF l[j].group_number > 0 THEN RefInner(k, l, v, i, j + 1)
    ELSE IF visual_compare(k, l[i], l[j])
         THEN LET fresh == l[i].group_number = 0
                  g == IF fresh THEN v + 1 ELSE l[i].group_number
              IN  RefInner(k, [l EXCEPT ![i].group_number = g,
                                        ![j].group_number = g],
                           IF fresh THEN v + 1 ELSE v, i, j + 1)
         ELSE RefInner(k, l, v, i, j + 1)

RECURSIVE RefOuter(_, _, _, _)
\* The outer loop of the reference algorithm, `for i in 0..N-1`.
RefOuter(k, l, v, i) ==
    IF i > Len(l) THEN [a |-> l, value |-> v]
    ELSE IF l[i].group_number > 0 THEN RefOuter(k, l, v, i + 1)
    ELSE LET r == RefInner(k, l, v, i, i + 1)
         IN  RefOuter(k, r.a, r.value, i + 1)

\* The list with group numbers gs given to its items beforehand.
PreGrouped(l, gs) == [i \in 1..Len(l) |-> [l[i] EXCEPT !.group_number = gs[i]]]

\* C3: when mark_groups returns, the items and the counter are as the
\* reference double loop leaves them, from every list and counter value; and
\* mark_groups as a function agrees with the reference loop also on lists
\* some of whose items are grouped beforehand.
C3_SameAsReferenceLoop ==
    /\ After =>
          LET r == RefOuter(kind, start.a, start.value, 1)
          IN  /\ a = r.a
              /\ value = r.value
              /\ mark_groups(kind, start.a, start.value) = r
    /\ (pc = "outer" /\ idx = 0) =>
          \A gs \in [1..Len(a) -> {0, value}] :
              mark_groups(kind, PreGrouped(a, gs), value)
                  = RefOuter(kind, PreGrouped(a, gs), value, 1)

\* A pass from a used counter that grouped the last item of a list of three
\* or more and left the first ungrouped.
C3_Witness ==
    /\ pc = "done"
    /\ start.value > 0
    /\ Len(a) >= 3
    /\ a[Len(a)].group_number > 0
    /\ a[1].group_number = 0

\* C4: a step changes an item's group_number only from 0 to a positive id,
\* so a positive group_number is never changed again; the list keeps its
\* length.
C4_GroupNumberSetOnce ==
    [][/\ Len(a') = Len(a)
       /\ \A i \in 1..Len(a) :
             a'[i].group_number # a[i].group_number =>
                 (a[i].group_number = 0 /\ a'[i].group_number > 0)]_vars

\* The inner loop is at a grouped item2 that is similar to the outer item.
C4_Witness ==
    /\ pc = "inner"
    /\ idx2 < SliceLen
    /\ Item.group_number = 0
    /\ Item2.group_number > 0
    /\ visual_compare(kind, Item, Item2)

\* C5 as stated: the similarity test is evaluated only on two items that
\* both have group_number 0 at that time.
C5_Original_BothUngroupedWhenCompared ==
    \A c \in compared : c.gi = 0 /\ c.gj = 0

\* C5 amended: at every comparison item2 has group_number 0; the outer item
\* has 0 too, or carries the id it drew at an earlier comparison of the same
\* outer iteration, which it entered with 0; an item that joined a group as
\* item2 is never the outer item of a comparison.
C5_InnerUngroupedOuterOwnId ==
    /\ \A c \in compared : c.gj = 0
    /\ \A c \in compared :
          c.gi > 0 =>
              /\ a[c.i].group_number = c.gi
              /\ \E d \in compared :
                    /\ d.i = c.i
                    /\ d.j < c.j
                    /\ d.gi = 0
                    /\ a[d.j].group_number = c.gi
    /\ \A c, d \in compared : ~(d.j = c.i /\ Sim(d.i, d.j))

\* The outer item was compared while it already had its id.
C5_Witness == \E c \in compared : c.gi > 0

\* C6: from [A, B, C] with A~B, B~C and not A~C, A and B end with the id
\* drawn for A and C ends with group_number 0.
C6_NoTransitiveMerge ==
    (After /\ Len(a) = 3 /\ Sim(1, 2) /\ Sim(2, 3) /\ ~Sim(1, 3)) =>
        /\ a[1].group_number = start.value + 1
        /\ a[2].group_number = start.value + 1
        /\ a[3].group_number = 0

\* A pass over three such videos has returned.
C6_Witness ==
    /\ pc = "done"
    /\ kind = "video"
    /\ Len(a) = 3
    /\ Sim(1, 2) /\ Sim(2, 3) /\ ~Sim(1, 3)

\* C7: from [A, B, C] with A~B, A~C and not B~C, all three end with the id
\* drawn for A; and in general an item2 found similar to the outer item
\* gets the outer item's id, whether the outer item had it before or not, so
\* that no later item similar to a scanned item stays ungrouped.
C7_AnchorCollectsAll ==
    /\ (After /\ Len(a) = 3 /\ Sim(1, 2) /\ Sim(1, 3) /\ ~Sim(2, 3)) =>
          \A i \in 1..3 : a[i].group_number = start.value + 1
    /\ \A c \in compared :
          Sim(c.i, c.j) =>
              (a[c.i].group_number > 0
               /\ a[c.j].group_number = a[c.i].group_number)
    /\ After =>
          \A i, j \in 1..Len(a) :
              (i < j /\ Sim(i, j) /\ (\E c \in compared : c.i = i)) =>
                  a[j].group_number > 0

\* A pass over three such images has returned.
C7_Witness ==
    /\ pc = "done"
    /\ kind = "image"
    /\ Len(a) = 3
    /\ Sim(1, 2) /\ Sim(1, 3) /\ ~Sim(2, 3)

Occurrences(seq, x) == Cardinality({p \in 1..Len(seq) : seq[p] = x})

\* C8: the mapping built after the pass has no key 0; the path of an item
\* occurs once under the item's positive group_number and nowhere else, and
\* every path of the mapping is an item's; an item similar to no other item
\* of the list has group_number 0.
C8_MappingHoldsExactlyTheGrouped ==
    /\ pc = "reported" =>
          /\ 0 \notin DOMAIN grouped
          /\ \A i \in 1..Len(a) : \A g \in DOMAIN grouped :
                Occurrences(grouped[g], a[i].file_path)
                    = IF a[i].group_number = g THEN 1 ELSE 0
          /\ \A i \in 1..Len(a) :
                a[i].group_number > 0 => a[i].group_number \in DOMAIN grouped
          /\ \A g \in DOMAIN grouped : \A p \in 1..Len(grouped[g]) :
                \E i \in 1..Len(a) : a[i].file_path = grouped[g][p]
    /\ After =>
          \A i \in 1..Len(a) :
              (\A j \in 1..Len(a) : j # i => ~Sim(i, j)) =>
                  a[i].group_number = 0

\* A mapping with a group was built from a list that has an unmatched video.
C8_Witness ==
    /\ pc = "reported"
    /\ kind = "video"
    /\ DOMAIN grouped # {}
    /\ \E i \in 1..Len(a) : a[i].group_number = 0

\* The sets of paths that share a group number.
Partition(l) ==
    {{l[i].file_path : i \in {x \in 1..Len(l) : l[x].group_number = g}} :
        g \in GroupIds(l)}

Perms(n) == {f \in [1..n -> 1..n] : \A x, y \in 1..n : x # y => f[x] # f[y]}

Reordered(l, f) == [i \in 1..Len(l) |-> l[f[i]]]

\* The items are grouped alike from every ordering of the list.
SameGroupsFromEveryOrder ==
    \A f \in Perms(Len(a)) :
        Partition(mark_groups(kind, Reordered(start.a, f), start.value).a)
            = Partition(a)

\* The comparison is transitive on the items of the list.
Transitive ==
    \A x, y, z \in 1..Len(a) : (Sim(x, y) /\ Sim(y, z)) => Sim(x, z)

\* C9 as stated: whatever the order of the list, the same items end up
\* grouped together and the same items stay ungrouped.
C9_Original_OrderInsignificant == pc = "done" => SameGroupsFromEveryOrder

\* C9 amended: the order of the list does not change which items are grouped
\* together when the comparison is transitive on the items of the list.
C9_OrderInsignificantIfTransitive ==
    (pc = "done" /\ Transitive) => SameGroupsFromEveryOrder

\* A pass over three or more items with a transitive comparison that formed
\* a group and left the first item out.
C9_Witness ==
    /\ pc = "done"
    /\ Transitive
    /\ Len(a) >= 3
    /\ GroupIds(a) # {}
    /\ a[1].group_number = 0

RECURSIVE BitsDiffering(_, _)
\* The Hamming distance of two bit vectors, position by position.
BitsDiffering(x, y) ==
    IF x = <<>> THEN 0
    ELSE (IF Head(x) = Head(y) THEN 0 ELSE 1) + BitsDiffering(Tail(x), Tail(y))

\* C10: is_similar_img holds exactly when the Hamming distance is below
\* SIMILAR_THRESHOLD: not at the threshold, yes one below it, and a
\* fingerprint is similar and identical to itself.
C10_SimilarIffBelowThreshold ==
    verdict.done =>
        LET dist == BitsDiffering(fa, fb)
        IN  /\ verdict.similar <=> (dist < SIMILAR_THRESHOLD)
            /\ dist = SIMILAR_THRESHOLD => ~verdict.similar
            /\ dist = SIMILAR_THRESHOLD - 1 => verdict.similar
            /\ fa = fb => (verdict.similar /\ verdict.identical)

\* Two fingerprints exactly SIMILAR_THRESHOLD bits apart were compared.
C10_Witness ==
    /\ verdict.done
    /\ BitsDiffering(fa, fb) = SIMILAR_THRESHOLD
    /\ ~verdict.similar

\* The video with other fingerprints in place of its own.
WithFrames(x, hs) == [x EXCEPT !.hashed_imgs = hs]

\* The list hs agrees with the list y on the first n positions.
AgreesUpTo(hs, y, n) == Len(hs) >= n /\ \A p \in 1..n : hs[p] = y[p]

\* C11: visual_compare_video(x, y) is true exactly when both fingerprint
\* lists are non-empty and every position both lists have holds a similar
\* pair; replacing the longer list by any list that agrees with it on the
\* positions the shorter list has leaves the result as it is; a video with an
\* empty list matches nothing, itself included, and ends the pass ungrouped.
C11_VideoMatchIsPositionalOverShorter ==
    /\ (kind = "video" /\ pc = "outer" /\ idx = 0) =>
          \A i, j \in 1..Len(a) :
              LET x == a[i].hashed_imgs
                  y == a[j].hashed_imgs
              IN  /\ visual_compare_video(a[i], a[j])
                        <=> (/\ x # <<>>
                             /\ y # <<>>
                             /\ \A p \in 1..Len(x) :
                                    p <= Len(y) => is_similar_img(x[p], y[p]))
                  /\ (x # <<>> /\ Len(x) <= Len(y)) =>
                        \A hs \in FrameLists :
                            AgreesUpTo(hs, y, Len(x)) =>
                                /\ visual_compare_video(a[i], WithFrames(a[j], hs))
                                       = visual_compare_video(a[i], a[j])
                                /\ visual_compare_video(WithFrames(a[j], hs), a[i])
                                       = visual_compare_video(a[j], a[i])
                  /\ x = <<>> =>
                        /\ ~visual_compare_video(a[i], a[j])
                        /\ ~visual_compare_video(a[j], a[i])
                        /\ ~visual_compare_video(a[i], a[i])
    /\ (kind = "video" /\ After) =>
          \A i \in 1..Len(a) :
              a[i].hashed_imgs = <<>> => a[i].group_number = 0

\* A pass grouped a video of one frame with a video of two frames whose
\* second frame is not similar to any frame of the first, and left a video
\* without frames ungrouped.
C11_Witness ==
    /\ kind = "video"
    /\ pc = "done"
    /\ \E i, j, e \in 1..Len(a) :
          /\ Len(a[i].hashed_imgs) = 1
          /\ Len(a[j].hashed_imgs) = 2
          /\ ~is_similar_img(a[i].hashed_imgs[1], a[j].hashed_imgs[2])
          /\ a[i].group_number > 0
          /\ a[j].group_number = a[i].group_number
          /\ a[e].hashed_imgs = <<>>
          /\ a[e].group_number = 0

\* The position of an item in a list of distinct items.
PositionIn(l, x) == CHOOSE p \in 1..Len(l) : l[p] = x

\* s is l reordered by ascending group_number, items of equal group_number
\* in the order they have in l.
StablySortedByGroup(l, s) ==
    /\ Len(s) = Len(l)
    /\ \A i \in 1..Len(l) : Occurrences(s, l[i]) = 1
    /\ \A p, q \in 1..Len(s) :
          p < q =>
              /\ s[p].group_number <= s[q].group_number
              /\ s[p].group_number = s[q].group_number =>
                    PositionIn(l, s[p]) < PositionIn(l, s[q])
    /\ \A p, q, r \in 1..Len(s) :
          (p < q /\ q < r /\ s[p].group_number = s[r].group_number) =>
              s[q].group_number = s[p].group_number

\* C12: sort_videos / sort_images, applied to the list mark_groups returned
\* or to its grouped items, return a permutation of it in ascending
\* group_number in which items of one group keep their relative order, so
\* that every group is contiguous.
C12_SortByGroupIsStable ==
    After =>
        /\ StablySortedByGroup(a, sort_by_group(a))
        /\ StablySortedByGroup(Filtered(a), sort_by_group(Filtered(a)))

\* mark_groups returned a list in which an item of the second group stands
\* before an item of the first, so that the sort has to move items.
C12_Witness ==
    /\ pc = "done"
    /\ sort_by_group(Filtered(a)) # Filtered(a)
    /\ \E i, j \in 1..Len(a) :
          i < j /\ a[i].group_number = 2 /\ a[j].group_number = 1

\* The directory of a path: its parts without the last.
Directory(path) == SubSeq(path, 1, Len(path) - 1)

FileName(path) == path[Len(path)]

\* The extension of a file name: what follows the stem.
Extension(name) == SubSeq(name, Len(Stem(name)) + 1, Len(name))

AllDigits(t) == \A p \in 1..Len(t) : t[p] \in Digits

\* The texts n1 and n2 are one text but for a single run of digits, which
\* begins at position s and is l1 long in n1 and l2 long in n2.
OneDigitRunApart(n1, n2, s, l1, l2) ==
    /\ SubSeq(n1, 1, s - 1) = SubSeq(n2, 1, s - 1)
    /\ AllDigits(SubSeq(n1, s, s + l1 - 1))
    /\ AllDigits(SubSeq(n2, s, s + l2 - 1))
    /\ SubSeq(n1, s + l1, Len(n1)) = SubSeq(n2, s + l2, Len(n2))
    /\ s > 1 => n1[s - 1] \notin Digits
    /\ s + l1 <= Len(n1) => n1[s + l1] \notin Digits

\* Paths p and q have the same directory and extension, their names differ
\* only in one run of digits, and the run of p is the smaller integer.
SmallerNumberIn(p, q) ==
    /\ p # <<>> /\ q # <<>>
    /\ Directory(p) = Directory(q)
    /\ Extension(FileName(p)) = Extension(FileName(q))
    /\ LET n1 == Stem(FileName(p))
           n2 == Stem(FileName(q))
       IN  \E s \in 1..Len(n1) : \E l1 \in 1..Len(n1) : \E l2 \in 1..Len(n2) :
               /\ s + l1 - 1 <= Len(n1)
               /\ s + l2 - 1 <= Len(n2)
               /\ OneDigitRunApart(n1, n2, s, l1, l2)
               /\ IntOf(SubSeq(n1, s, s + l1 - 1))
                     < IntOf(SubSeq(n2, s, s + l2 - 1))

\* C13: of two paths with the same directory and extension whose names
\* differ only in one run of digits, sort_path_naturally returns the one with
\* the smaller integer first, however many digits the runs have; it returns
\* (raises nothing) when every two paths of the list are such a pair, and
\* [a2.mp4, a10.mp4, a1.mp4] is returned as [a1.mp4, a2.mp4, a10.mp4].
C13_DigitRunsCompareAsIntegers ==
    /\ spc = "returned" =>
          \A i, j \in 1..Len(sorted_list) :
              SmallerNumberIn(sorted_list[i], sorted_list[j]) => i < j
    /\ (spc # "call"
        /\ \A i, j \in 1..Len(path_list) :
              i # j => (\/ SmallerNumberIn(path_list[i], path_list[j])
                        \/ SmallerNumberIn(path_list[j], path_list[i])))
          => spc = "returned"
    /\ (spc # "call"
        /\ path_list = <<SortPool[1], SortPool[2], SortPool[3]>>)
          => sorted_list = <<SortPool[3], SortPool[1], SortPool[2]>>

\* [a2.mp4, a10.mp4, a1.mp4] was sorted: a10.mp4, the longest run, is last.
C13_Witness ==
    /\ spc = "returned"
    /\ path_list = <<SortPool[1], SortPool[2], SortPool[3]>>
    /\ sorted_list[3] = SortPool[2]

\* C14: the natural ordering is total: no two distinct paths of the list
\* have the same key, and whatever the order of the input list,
\* sort_path_naturally returns the same list.
C14_SortIndependentOfInputOrder ==
    spc = "returned" =>
        /\ \A i, j \in 1..Len(path_list) :
              i # j => PathKeys(path_list[i]) # PathKeys(path_list[j])
        /\ \A f \in Perms(Len(path_list)) :
              /\ ~SortRaises(Reordered(path_list, f))
              /\ sort_path_naturally(Reordered(path_list, f)) = sorted_list

\* The keys of the sections of a path, section by section.
KeysBySection(path) ==
    LET sections == IF path = <<>> THEN <<>>
                    ELSE [path EXCEPT ![Len(path)] = Stem(path[Len(path)])]
    IN  [c \in 1..Len(sections) |-> natural_keys(sections[c])]

\* p stands before q when the paths are compared section by section: the
\* first section whose keys differ decides, by the lexicographic order of
\* its keys; a path that is a prefix of the other stands first.
SectionwiseLess(p, q) ==
    LET kp == KeysBySection(p)
        kq == KeysBySection(q)
        ds == {c \in 1..Min(Len(kp), Len(kq)) : kp[c] # kq[c]}
    IN  IF ds = {} THEN Len(kp) < Len(kq)
        ELSE LET c == CHOOSE d \in ds : \A e \in ds : d <= e
             IN  KeyLess(kp[c], kq[c]) = "lt"

\* C15: sort_path_naturally compares section by section, a later section
\* counting only when the earlier ones are equal, and never compares a run of
\* digits with a run of text: it raises no TypeError, and the list it returns
\* is in section-by-section order.
C15_ComparesSectionBySection ==
    /\ spc # "TypeError"
    /\ spc = "returned" =>
          \A i, j \in 1..Len(sorted_list) :
              i < j => ~SectionwiseLess(sorted_list[j], sorted_list[i])

\* The files whose extraction (ffprobe or ffmpeg) failed.
ExtractionFailed == failures.probe \cup failures.screenshot

\* C16: a failure of get_video_info or of screenshot for one file does not
\* stop the batch run: the run never ends by the exception, it stops early
\* only when the target path does not exist, and when it reports, every file
\* whose extraction did not fail has gone through grouping.
C16_ExtractionFailureIsIsolated ==
    /\ bpc # "raised"
    /\ bpc = "exit" => ~path_exists
    /\ pc = "reported" =>
          \A i \in 1..Len(video_files) :
              video_files[i] \notin ExtractionFailed =>
                  \E j \in 1..Len(a) : a[j].file_path = video_files[i]

\* C17: a video one of whose screenshots failed to hash takes part in
\* grouping as a video without fingerprints: it ends the run with
\* group_number 0, and no comparison finds it similar to another video by
\* the frames that did hash.
C17_HashFailureExcludesItem ==
    /\ After =>
          \A i \in 1..Len(a) :
              a[i].file_path \in failures.hash => a[i].group_number = 0
    /\ \A c \in compared :
          (a[c.i].file_path \in failures.hash
           \/ a[c.j].file_path \in failures.hash) => ~Sim(c.i, c.j)

\* C18: HashComputer(mode) selects the perceptual hash when mode is "phash"
\* in any mix of upper and lower case, and the average hash for every other
\* name, a spelling of "ahash" or not; the constructor always completes, and
\* it changes nothing but the new object's mode.
C18_UnknownModeFallsBackToAverage ==
    /\ hpc \in {"call", "constructed"}
    /\ hpc = "constructed" =>
          /\ IsSpelling(mode_name, <<"p", "h", "a", "s", "h">>)
                => self_mode = "_phash"
          /\ IsSpelling(mode_name, <<"a", "h", "a", "s", "h">>)
                => self_mode = "_ahash"
          /\ (~IsSpelling(mode_name, <<"p", "h", "a", "s", "h">>)
              /\ ~IsSpelling(mode_name, <<"a", "h", "a", "s", "h">>))
                => self_mode = "_ahash"
    /\ DOMAIN MODE = {<<"a", "h", "a", "s", "h">>, <<"p", "h", "a", "s", "h">>}
    /\ value = 0 /\ a = <<>> /\ path_list = <<>> /\ video_files = <<>>

\* A computer was made from "dhash", a name MODE lacks.
C18_Witness ==
    /\ hpc = "constructed"
    /\ mode_name = <<"d", "h", "a", "s", "h">>
    /\ Lowered(mode_name) \notin DOMAIN MODE
    /\ self_mode = "_ahash"

\* The last call removed its path.
Removed == removal.path \in removal.before /\ removal.path \notin tree

VideoEndings ==
    VIDEO_FILE_SUFFIXES \cup {<<".", "M", "P", "4">>}

\* The name ends with the text.
EndsWith(name, text) ==
    /\ Len(text) < Len(name)
    /\ SubSeq(name, Len(name) - Len(text) + 1, Len(name)) = text

\* The name's last dot begins a video suffix.
HasVideoSuffix(name) ==
    \E e \in VideoEndings :
        /\ EndsWith(name, e)
        /\ \A p \in 1..Len(name) :
              name[p] = "." => p <= Len(name) - Len(e) + 1

\* A name of the path below the folder begins with a dot.
HiddenBelow(folder, q) ==
    \E k \in (Len(folder) + 1)..Len(q) : Head(q[k]) = "."

\* The regular files below the folder with a video suffix that the flags
\* recursive and ignore_hidden let through.
VideosByFlags ==
    {q \in tree \cap FileNodes :
        /\ IsPrefix(scan_args.folder_path, q)
        /\ HasVideoSuffix(q[Len(q)])
        /\ scan_args.recursive \/ Parent(q) = scan_args.folder_path
        /\ scan_args.ignore_hidden => ~HiddenBelow(scan_args.folder_path, q)}

\* Every folder from the scanned folder down to the one holding q can be
\* reached, listed and searched.
FoldersOpenDownTo(q) ==
    /\ CanReach(scan_args.folder_path)
    /\ \A d \in DirNodes :
          (IsPrefix(scan_args.folder_path, d) /\ IsPrefix(d, q) /\ d # q)
              => dmode[d] \in {"rwx", "r-x"}

ProbeSucceedsIn(d) ==
    /\ dmode[d] = "rwx"
    /\ Append(d, N_probe) # ProbeDir \/ ProbeDir \notin scan_tree

Writable(d) == CanReach(d) /\ dmode[d] = "rwx"

\* C21: with ignore_readonly_folder set, scan returns no video whose own
\* folder is read-only, returns every video the other flags let through
\* whose own folder is writable and can be reached from the scanned one, and
\* its probe leaves no new file in a writable folder.
C21_ReadonlyFoldersIgnoredWritableKept ==
    (scpc = "returned" /\ scan_args.ignore_readonly_folder) =>
        /\ \A q \in scanned : Writable(Parent(q))
        /\ \A q \in VideosByFlags :
              (Writable(Parent(q)) /\ FoldersOpenDownTo(q)) => q \in scanned
        /\ \A d \in DirNodes :
              (Writable(d) /\ Append(d, N_probe) \in tree)
                  => Append(d, N_probe) \in scan_tree

\* The positions of a group's members.
Members(l, g) == {i \in 1..Len(l) : l[i].group_number = g}

\* The step draws an id from the counter and gives it to exactly two items,
\* which had none; no other item changes.
DrawnIdGoesToTwoItems ==
    value' # value =>
        /\ Members(a, value') = {}
        /\ Cardinality(Members(a', value')) = 2
        /\ \A i \in Members(a', value') : a[i].group_number = 0
        /\ Len(a') = Len(a)
        /\ \A i \in 1..Len(a) : i \notin Members(a', value') => a'[i] = a[i]

\* C22: every id mark_groups draws is assigned in the same step to two
\* items, every group has at least two members at every moment of the pass,
\* and when a pass that began with a fresh counter is over, peek_int is the
\* number of groups.
C22_NoDrawnIdIsDiscarded ==
    /\ [][DrawnIdGoesToTwoItems]_vars
    /\ [](\A g \in GroupIds(a) : Cardinality(Members(a, g)) >= 2)
    /\ []((pc = "done" /\ start.value = 0)
            => peek_int(value) = Cardinality(GroupIds(a)))

\* A pass on a fresh counter ended with two groups.
C22_Witness ==
    /\ pc = "done"
    /\ start.value = 0
    /\ peek_int(value) = 2
    /\ Cardinality(GroupIds(a)) = 2

\* The fingerprint sequence of an item: the one hash of an image, none when
\* the image has no hash; the hashes of a video's frames.
FingerprintSeq(x) ==
    IF kind = "image"
    THEN IF x.hashed_img = None THEN <<>> ELSE <<x.hashed_img>>
    ELSE x.hashed_imgs

\* The items at positions i and j are exact duplicates.
ExactDuplicates(i, j) ==
    /\ i # j
    /\ FingerprintSeq(a[i]) # <<>>
    /\ FingerprintSeq(a[i]) = FingerprintSeq(a[j])

\* C23: when the pass is over, two items with the same non-empty fingerprint
\* sequence carry the same positive group_number, wherever they are in the
\* list.
C23_ExactDuplicatesShareAGroup ==
    After =>
        \A i, j \in 1..Len(a) :
            ExactDuplicates(i, j) =>
                (a[i].group_number > 0
                 /\ a[i].group_number = a[j].group_number)

\* A pass has returned in which two exact duplicates are the second and the
\* last of four items, the first is similar to them and the third is not.
C23_Witness ==
    /\ pc = "done"
    /\ Len(a) = 4
    /\ ExactDuplicates(2, 4)
    /\ Sim(1, 2)
    /\ ~Sim(3, 4)
    /\ ~ExactDuplicates(1, 2)

\* C24: when the pass is over, no two items with group_number 0 are similar,
\* and every item similar to an item with group_number 0 was grouped by the
\* time the outer loop reached that item.
C24_UngroupedItemsAreDissimilar ==
    After =>
        \A u \in 1..Len(a) :
            a[u].group_number = 0 =>
                \A s \in 1..Len(a) :
                    (s # u /\ Sim(u, s)) =>
                        (a[s].group_number > 0 /\ s \in reached[u])

\* A pass has returned that leaves the third of four images ungrouped,
\* which is similar to the second, grouped by the first before.
C24_Witness ==
    /\ pc = "done"
    /\ Len(a) = 4
    /\ a[3].group_number = 0
    /\ Sim(2, 3)
    /\ 2 \in reached[3]
    /\ a[4].group_number > 0

\* The anchor of a group: its member with the lowest position in the list.
Anchor(l, g) == CHOOSE i \in Members(l, g) : \A m \in Members(l, g) : i <= m

\* C25: when the pass is over, the anchor of every group is similar to every
\* other member of the group, and of two groups the one with the anchor
\* earlier in the list has the smaller id.
C25_AnchorSimilarToAllAndIdsInAnchorOrder ==
    After =>
        /\ \A g \in GroupIds(a) :
              \A m \in Members(a, g) \ {Anchor(a, g)} : Sim(Anchor(a, g), m)
        /\ \A g, h \in GroupIds(a) :
              Anchor(a, g) < Anchor(a, h) => g < h

\* A pass has returned with two interleaved groups: the first and third
\* image in one, the second and fourth in the other.
C25_Witness ==
    /\ pc = "done"
    /\ Len(a) = 4
    /\ GroupIds(a) = {start.value + 1, start.value + 2}
    /\ Members(a, start.value + 1) = {1, 3}
    /\ Members(a, start.value + 2) = {2, 4}

\* C26: a pass over the list an earlier pass returned, with the same counter,
\* changes no item and does not advance the counter, at any of its steps.
C26_MarkGroupsIsIdempotent ==
    calls >= 2 => (a = start.a /\ value = start.value)

\* A second pass has returned that found a group and two ungrouped images,
\* which it compared again.
C26_Witness ==
    /\ calls = 2
    /\ pc = "done"
    /\ Len(a) = 4
    /\ Cardinality(GroupIds(a)) = 1
    /\ Cardinality(Members(a, 0)) = 2
    /\ compared # {}

\* C27: sort_path_naturally never ends by a TypeError, and the list it
\* returns holds every path as often as the list it was called with.
C27_SortAlwaysReturnsAPermutation ==
    /\ spc # "TypeError"
    /\ spc = "returned" =>
          /\ Len(sorted_list) = Len(path_list)
          /\ \A k \in 1..Len(SortPool) :
                Occurrences(sorted_list, SortPool[k])
                    = Occurrences(path_list, SortPool[k])

\* A worker is running from scan_thread.start() until its finally block
\* has scheduled the re-enabling of the button, the last thing it does.
Running(w) == wpc[w] \in {"scan", "probe", "finally"}

\* A scan is under way from the click that begins it.
UnderWay(w) == wpc[w] = "pending" \/ Running(w)

ScheduledBy(w, cb) ==
    {k \in 1..Len(scheduled) : scheduled[k].w = w /\ scheduled[k].cb = cb}

\* The re-enabling that worker w scheduled has run on the main thread.
EnableRan(w) ==
    /\ ScheduledBy(w, "enable") # {}
    /\ \A k \in 1..Len(after_queue) : after_queue[k] # EnableCallback(w)

\* C29: every scan begun in the tkinter GUI leads to the state in which its
\* re-enabling has run and the button is normal, whether scan or a probe
\* raised or not; a worker past its finally block has scheduled exactly one
\* re-enabling, after the one callback with its results when scan returned
\* and without such a callback when scan raised.
C29_EveryScanReEnablesTheButton ==
    /\ \A w \in Workers :
          (wpc[w] = "pending") ~> (scan_btn = "normal" /\ EnableRan(w))
    /\ [](\A w \in Workers :
            /\ wpc[w] \in {"return", "ended"} =>
                  /\ Cardinality(ScheduledBy(w, "enable")) = 1
                  /\ wresult[w] = "returned" =>
                        /\ Cardinality(ScheduledBy(w, "results")) = 1
                        /\ \A j \in ScheduledBy(w, "results") :
                              \A k \in ScheduledBy(w, "enable") : j < k
                  /\ wresult[w] = "raised" => ScheduledBy(w, "results") = {}
            /\ wpc[w] \notin {"return", "ended"} =>
                  ScheduledBy(w, "enable") = {})

\* The first scan returned two files, the probe of one of them raised; the
\* second scan raised; the button is normal again after both.
C29_Witness ==
    /\ wresult[1] = "returned"
    /\ Len(wtemp[1]) < Cardinality(wfiles[1])
    /\ wresult[2] = "raised"
    /\ EnableRan(1)
    /\ EnableRan(2)
    /\ scan_btn = "normal"

\* The displayed videos that have not been removed.
Left == panels \ gone

\* C30: in fast mode a group window in which at most one displayed video is
\* left closes; a click deletes only a video whose button is enabled and
\* disables the button, so that no video is deleted twice; without fast
\* mode the window is closed by the user only.
C30_FastModeClosesWhenOneIsLeft ==
    /\ (fast_mode /\ Cardinality(Left) <= 1) ~> (gwpc = "closed")
    /\ [][posted' = posted + 1 =>
             \E p \in enabled :
                /\ enabled' = enabled \ {p}
                /\ gone' \in {gone, gone \cup {p}}]_vars
    /\ [](gone \subseteq panels \ enabled)
    /\ [](~fast_mode /\ gwpc = "closed" => closed_by = "user")

====
